---- MODULE Spec2Model ----
(***************************************************************************)
(* Resource adapters of the Infradots Terraform provider: the Create,      *)
(* Read, Update, Delete and Import handlers of the organization,           *)
(* workspace, variable and VCS resources and the Read handlers of the      *)
(* organization, workspace and VCS data sources, each translated from its  *)
(* Go source.                                                              *)
(*                                                                         *)
(* One behaviour follows one resource or data source instance of one       *)
(* adapter (kind).                                                         *)
(* Every step is one whole handler invocation: the host runtime hands it   *)
(* a plan and/or the prior state, the handler issues its HTTP request, the *)
(* remote API (the environment) answers with any response, and the handler *)
(* leaves diagnostics and the new local state.                             *)
(***************************************************************************)
EXTENDS Naturals, Integers, Sequences, FiniteSets, TLC

VARIABLES
    kind,       \* which adapter this resource instance belongs to
    state,      \* local state: <<>> when the record is absent, <<model>> otherwise
    op,         \* the handler that ran last ("none" before the first)
    before,     \* the local state the last handler started from
    plan,       \* the plan given to the last handler: <<>> or <<model>>
    arg,        \* the import ID or the data source configuration given to
                \* the last handler: <<>> or <<value>>
    requests,   \* the HTTP requests the last handler issued, in order
    response,   \* the HTTP response the last handler received
    diags,      \* the error diagnostics the last handler raised
    config,     \* the provider configuration Configure was given: <<>> or <<config>>
    handle,     \* the InfradotsProvider every resource holds a pointer to
    instances   \* the resource instances whose handlers run concurrently

vars == <<kind, state, op, before, plan, arg, requests, response, diags,
          config, handle, instances>>

\* The number of distinct record ids the remote API hands out.
MaxId == 2

\* The longest list a list endpoint answers with.
MaxList == 2

----------------------------------------------------------------------------
(* Attribute values of the plugin framework (types.String, types.Bool):    *)
(* null, unknown or known.                                                 *)

StringValue(s) == [st |-> "known", v |-> s]
StringNull == [st |-> "null", v |-> ""]
StringUnknown == [st |-> "unknown", v |-> ""]
ValueString(a) == IF a.st = "known" THEN a.v ELSE ""

BoolValue(b) == [st |-> "known", v |-> b]
ValueBool(a) == IF a.st = "known" THEN a.v ELSE FALSE

\* attr.Value.Equal: same null/unknown/known state and same value.
Equal(a, b) == a = b

----------------------------------------------------------------------------
(* Text conversions.                                                       *)

\* strings.ToLower on the execution-mode texts the API is known to return.
ToLower(s) ==
    CASE s = "Remote" -> "remote"
      [] s = "Local" -> "local"
      [] OTHER -> s

\* The timestamp texts a response may carry.  json.Unmarshal into time.Time
\* accepts RFC 3339 with an optional fraction and rejects anything else.
TimeTexts == {"2025-07-07T12:00:00Z", "2025-07-07T12:00:00.5Z", "2025-07-07T12:01:00Z"}
BadTimeText == "yesterday"

\* time.Time as whole seconds and a nanosecond part.
ZeroTime == [sec |-> 0, nsec |-> 0]

ParseTime(text) ==
    CASE text = "2025-07-07T12:00:00Z" -> [sec |-> 43200, nsec |-> 0]
      [] text = "2025-07-07T12:00:00.5Z" -> [sec |-> 43200, nsec |-> 500000000]
      [] text = "2025-07-07T12:01:00Z" -> [sec |-> 43260, nsec |-> 0]
      [] OTHER -> ZeroTime

\* t.Format(time.RFC3339): the layout has no fraction, the nanoseconds are dropped.
FormatRFC3339(t) ==
    CASE t.sec = 43200 -> "2025-07-07T12:00:00Z"
      [] t.sec = 43260 -> "2025-07-07T12:01:00Z"
      [] OTHER -> "0001-01-01T00:00:00Z"

----------------------------------------------------------------------------
(* JSON bodies.  A body is unparsable text, or an object given by the keys *)
(* it holds; a key the object lacks leaves the Go field at its zero value. *)

InvalidBody == [valid |-> FALSE, obj |-> <<>>]
JsonObject(o) == [valid |-> TRUE, obj |-> o]
\* {"error": "Not found"}: an object with none of the keys a model reads.
ErrorBody == JsonObject(<<>>)

\* A JSON array of objects.
JsonArray(l) == [valid |-> TRUE, obj |-> l, array |-> TRUE]
IsArray(body) == body.valid /\ "array" \in DOMAIN body
IsObject(body) == body.valid /\ "array" \notin DOMAIN body

Field(o, k, zero) == IF k \in DOMAIN o THEN o[k] ELSE zero

TimeFieldOk(o, k) == k \in DOMAIN o => o[k] \in TimeTexts
TimeField(o, k) == IF k \in DOMAIN o THEN ParseTime(o[k]) ELSE ZeroTime

\* The base record and every record that differs from it in one attribute,
\* alts[f] being the other values of attribute f.
Variants(base, alts) ==
    {base} \cup UNION {{[base EXCEPT ![f] = v] : v \in alts[f]} : f \in DOMAIN alts}

IdTexts == <<"id-1", "id-2", "id-3", "id-4">>
Ids == {IdTexts[i] : i \in 1..MaxId}

----------------------------------------------------------------------------
(* HTTP.                                                                   *)

Statuses == {200, 201, 204, 404, 500}

\* client.Do failed: there is no response.
DoFailed == [fail |-> "do", status |-> 0, body |-> InvalidBody]
NoResponse == [fail |-> "none", status |-> 0, body |-> InvalidBody]

Ok(status, o) == [fail |-> "none", status |-> status, body |-> JsonObject(o)]

\* The responses a handler may meet: client.Do fails; io.ReadAll of the body
\* fails; any status with an unparsable body, an error object or the base
\* object; status 200 or 201 with any of the objects.
Responses(objects, base) ==
    {DoFailed}
    \cup {[fail |-> "read", status |-> s, body |-> InvalidBody] : s \in {200, 404}}
    \cup {[fail |-> "none", status |-> s, body |-> b] :
            s \in Statuses, b \in {InvalidBody, ErrorBody, JsonObject(base)}}
    \cup {Ok(s, o) : s \in {200, 201}, o \in objects}

\* The lists of at most MaxList of the objects, in every order.
Lists(objects) == UNION {[1..n -> objects] : n \in 0..MaxList}

\* The responses a handler may meet at a list endpoint: client.Do fails;
\* io.ReadAll of the body fails; any status with an unparsable body, an
\* error object or a list of the base object; status 200 with any list.
ListResponses(objects, base) ==
    {DoFailed}
    \cup {[fail |-> "read", status |-> s, body |-> InvalidBody] : s \in {200, 404}}
    \cup {[fail |-> "none", status |-> s, body |-> b] :
            s \in Statuses, b \in {InvalidBody, ErrorBody, JsonArray(<<base>>)}}
    \cup {[fail |-> "none", status |-> 200, body |-> JsonArray(l)] : l \in Lists(objects)}

\* The invocations explored: any plan with the base response, and the base
\* plan with any response.
Scenarios(plans, basePlan, responses, baseResponse) ==
    {<<p, baseResponse>> : p \in plans} \cup {<<basePlan, r>> : r \in responses}

Request(method, url, body) == [method |-> method, url |-> url, body |-> body]
NoBody == <<>>

Diag(summary, detail) == [summary |-> summary, detail |-> detail]
StatusAndBody(r) == [status |-> r.status, body |-> r.body]
StatusOnly(r) == [status |-> r.status]
ErrText == [err |-> "error"]

\* A handler that issues its request a second time when it ends in an error.
OutcomeRetried(reqs, ds, st) ==
    [requests |-> IF ds # <<>> THEN reqs \o reqs ELSE reqs, diags |-> ds, state |-> st]

\* A handler that removes the record from state when it ends in an error.
OutcomeDroppedOnError(reqs, ds, st) ==
    [requests |-> reqs, diags |-> ds, state |-> IF ds # <<>> THEN <<>> ELSE st]

\* What a handler leaves behind.
Outcome(reqs, ds, st) == [requests |-> reqs, diags |-> ds, state |-> st]

\* The status codes each handler accepts.
CreateAcceptsAny2xx(status) == status \in {200, 201, 204}
CreateAccepts(status) == status = 201

ReadRemovesNothing(status) == FALSE
ReadRemoves(status) == status = 404

ReadAccepts(status) == status = 200
UpdateAccepts(status) == status = 200

DeleteAcceptsAll(status) == TRUE
DeleteAccepts(status) == status = 204 \/ status = 200

----------------------------------------------------------------------------
(* Organization resource.                                                  *)

OrganizationPlanBase ==
    [name |-> StringValue("org-a"),
     execution_mode |-> StringValue("remote"),
     agents_enabled |-> BoolValue(TRUE)]

\* The configurable attributes as the schema admits them: name is required,
\* execution_mode is one of "local"/"remote" (default "remote"),
\* agents_enabled defaults to true.
OrganizationConfigs ==
    Variants(OrganizationPlanBase,
             [name |-> {StringValue("org-b")},
              execution_mode |-> {StringValue("local")},
              agents_enabled |-> {BoolValue(FALSE)}])

\* The plan of the given configuration: id and updated_at are computed,
\* created_at is computed with the static default "".
OrganizationPlan(c, id) ==
    [id |-> id,
     name |-> c.name,
     created_at |-> StringValue(""),
     updated_at |-> StringUnknown,
     execution_mode |-> c.execution_mode,
     agents_enabled |-> c.agents_enabled]

OrganizationObjectBase ==
    [id |-> "id-1", name |-> "org-a",
     created_at |-> "2025-07-07T12:00:00Z", updated_at |-> "2025-07-07T12:00:00Z",
     execution_mode |-> "remote", agents_enabled |-> TRUE]

OrganizationObjects ==
    Variants(OrganizationObjectBase,
             [id |-> Ids,
              name |-> {"org-b"},
              created_at |-> {"2025-07-07T12:00:00.5Z", BadTimeText},
              updated_at |-> {"2025-07-07T12:01:00Z"},
              execution_mode |-> {"Remote", "local"},
              agents_enabled |-> {FALSE}])

OrganizationResponses == Responses(OrganizationObjects, OrganizationObjectBase)

\* json.Unmarshal into OrganizationAPIResponse.
OrganizationUnmarshalOk(o) ==
    /\ TimeFieldOk(o, "created_at")
    /\ TimeFieldOk(o, "updated_at")

OrganizationAPIResponse(o) ==
    [ID |-> Field(o, "id", ""),
     Name |-> Field(o, "name", ""),
     CreatedAt |-> TimeField(o, "created_at"),
     UpdatedAt |-> TimeField(o, "updated_at"),
     ExecutionMode |-> Field(o, "execution_mode", ""),
     AgentsEnabled |-> Field(o, "agents_enabled", FALSE)]

\* json.Marshal of OrganizationUpdateRequest: every field is omitempty.
OrganizationUpdateRequestJSON(r) ==
    LET keys == {k \in {"name", "execution_mode"} : r[k] # ""}
                \cup {k \in {"agents_enabled"} : r[k] # FALSE}
    IN  [k \in keys |-> r[k]]

OrganizationURL(id) == <<"http", "api", "organizations", id>>

OrganizationCreateOut(p, r) ==
    LET createReq == [name |-> ValueString(p.name),
                      execution_mode |-> ValueString(p.execution_mode),
                      agents_enabled |-> ValueBool(p.agents_enabled)]
        req == Request("POST", <<"http", "api", "organizations">>,
                       OrganizationUpdateRequestJSON(createReq))
        organization == OrganizationAPIResponse(r.body.obj)
    IN  IF r.fail = "do"
        THEN Outcome(<<req>>, <<Diag("Couldn't create Infradots organization", ErrText)>>, <<>>)
        ELSE IF r.fail = "read"
        THEN Outcome(<<req>>, <<Diag("Error reading response body", ErrText)>>, <<>>)
        ELSE IF ~CreateAccepts(r.status)
        THEN Outcome(<<req>>, <<Diag("Non-201 response", StatusAndBody(r))>>, <<>>)
        ELSE IF ~(r.body.valid /\ OrganizationUnmarshalOk(r.body.obj))
        THEN Outcome(<<req>>, <<Diag("Error parsing response", ErrText)>>, <<>>)
        ELSE Outcome(<<req>>, <<>>,
                <<[p EXCEPT
                    !.id = StringValue(organization.ID),
                    !.created_at = StringValue(FormatRFC3339(organization.CreatedAt)),
                    !.updated_at = StringValue(FormatRFC3339(organization.UpdatedAt)),
                    !.execution_mode = StringValue(ToLower(organization.ExecutionMode)),
                    !.agents_enabled = BoolValue(organization.AgentsEnabled)]>>)

OrganizationReadOut(data, r) ==
    LET req == Request("GET", OrganizationURL(ValueString(data.id)), NoBody)
        organization == OrganizationAPIResponse(r.body.obj)
    IN  IF r.fail = "do"
        THEN Outcome(<<req>>, <<Diag("HTTP request failed", ErrText)>>, <<data>>)
        ELSE IF ReadRemoves(r.status)
        THEN Outcome(<<req>>, <<>>, <<>>)
        ELSE IF ~ReadAccepts(r.status)
        THEN Outcome(<<req>>, <<Diag("Read failed", StatusOnly(r))>>, <<data>>)
        ELSE IF r.fail = "read"
        THEN Outcome(<<req>>, <<Diag("Error reading response body", ErrText)>>, <<data>>)
        ELSE IF ~(r.body.valid /\ OrganizationUnmarshalOk(r.body.obj))
        THEN Outcome(<<req>>, <<Diag("Error parsing response", ErrText)>>, <<data>>)
        ELSE Outcome(<<req>>, <<>>,
                <<[data EXCEPT
                    !.id = StringValue(organization.ID),
                    !.name = StringValue(organization.Name),
                    !.created_at = StringValue(FormatRFC3339(organization.CreatedAt)),
                    !.updated_at = StringValue(FormatRFC3339(organization.UpdatedAt)),
                    !.execution_mode = StringValue(organization.ExecutionMode),
                    !.agents_enabled = BoolValue(organization.AgentsEnabled)]>>)

\* The field-level diff of Update: a field is filled in only when plan and
\* state differ, and json.Marshal then drops every field left at its zero value.
OrganizationUpdatePayload(p, s) ==
    OrganizationUpdateRequestJSON(
        [name |-> IF ~Equal(p.name, s.name) THEN ValueString(p.name) ELSE "",
         execution_mode |-> IF ~Equal(p.execution_mode, s.execution_mode)
                            THEN ValueString(p.execution_mode) ELSE "",
         agents_enabled |-> IF ~Equal(p.agents_enabled, s.agents_enabled)
                            THEN ValueBool(p.agents_enabled) ELSE FALSE])

OrganizationUpdateOut(p, s, r) ==
    LET req == Request("PATCH", OrganizationURL(ValueString(p.id)),
                       OrganizationUpdatePayload(p, s))
        organization == OrganizationAPIResponse(r.body.obj)
    IN  IF r.fail = "do"
        THEN Outcome(<<req>>, <<Diag("HTTP request failed", ErrText)>>, <<s>>)
        ELSE IF r.fail = "read"
        THEN Outcome(<<req>>, <<Diag("Error reading response body", ErrText)>>, <<s>>)
        ELSE IF ~UpdateAccepts(r.status)
        THEN Outcome(<<req>>, <<Diag("Update failed", StatusAndBody(r))>>, <<s>>)
        ELSE IF ~(r.body.valid /\ OrganizationUnmarshalOk(r.body.obj))
        THEN Outcome(<<req>>, <<Diag("Error parsing response", ErrText)>>, <<s>>)
        ELSE Outcome(<<req>>, <<>>,
                <<[p EXCEPT
                    !.id = StringValue(organization.ID),
                    !.name = StringValue(organization.Name),
                    !.created_at = StringValue(FormatRFC3339(organization.CreatedAt)),
                    !.updated_at = StringValue(FormatRFC3339(organization.UpdatedAt)),
                    !.execution_mode = StringValue(organization.ExecutionMode),
                    !.agents_enabled = BoolValue(organization.AgentsEnabled)]>>)

OrganizationDeleteOut(data, r) ==
    LET req == Request("DELETE", OrganizationURL(ValueString(data.id)), NoBody)
    IN  IF r.fail = "do"
        THEN Outcome(<<req>>, <<Diag("HTTP request failed", ErrText)>>, <<data>>)
        ELSE IF r.fail = "read"
        THEN Outcome(<<req>>, <<Diag("Error reading response body", ErrText)>>, <<data>>)
        ELSE IF ~DeleteAccepts(r.status)
        THEN Outcome(<<req>>, <<Diag("Delete failed", StatusAndBody(r))>>, <<data>>)
        ELSE Outcome(<<req>>, <<>>, <<>>)

----------------------------------------------------------------------------
(* VCS resource.                                                           *)

VCSPlanBase ==
    [organization_name |-> StringValue("acme"),
     name |-> StringValue("gh"),
     vcs_type |-> StringValue("github"),
     url |-> StringValue("https://github.com"),
     client_id |-> StringValue("cid-1"),
     client_secret |-> StringValue("secret-1"),
     description |-> StringValue("")]

\* Every attribute but description is required; description defaults to "".
VCSConfigs ==
    Variants(VCSPlanBase,
             [organization_name |-> {StringValue("globex")},
              name |-> {StringValue("gl")},
              vcs_type |-> {StringValue("gitlab")},
              url |-> {StringValue("https://gitlab.com")},
              client_id |-> {StringValue("cid-2")},
              client_secret |-> {StringValue("secret-2")},
              description |-> {StringValue("main")}])

\* id is computed and takes the prior state's value (UseStateForUnknown);
\* created_at and updated_at are computed.
VCSPlan(c, id) ==
    [id |-> id,
     organization_name |-> c.organization_name,
     name |-> c.name,
     vcs_type |-> c.vcs_type,
     url |-> c.url,
     client_id |-> c.client_id,
     client_secret |-> c.client_secret,
     description |-> c.description,
     created_at |-> StringUnknown,
     updated_at |-> StringUnknown]

VCSObjectBase ==
    [id |-> "id-1", name |-> "gh", vcsType |-> "github",
     endpoint |-> "https://github.com", clientId |-> "cid-1", description |-> "",
     created_at |-> "2025-07-07T12:00:00Z", updated_at |-> "2025-07-07T12:00:00Z"]

\* The stored secret as a key of the response object: no model field reads it.
WithKey(o, k, v) == [x \in DOMAIN o \cup {k} |-> IF x = k THEN v ELSE o[x]]

VCSObjects ==
    Variants(VCSObjectBase,
             [id |-> Ids,
              name |-> {"gl"},
              vcsType |-> {"gitlab"},
              endpoint |-> {"https://gitlab.com"},
              clientId |-> {"cid-2"},
              description |-> {"main"},
              created_at |-> {"2025-07-07T12:00:00.5Z", BadTimeText},
              updated_at |-> {"2025-07-07T12:01:00Z"}])
    \cup {WithKey(VCSObjectBase, "clientSecret", "")}

VCSResponses == Responses(VCSObjects, VCSObjectBase)

\* json.Unmarshal into VCSAPIResponse.
VCSUnmarshalOk(o) ==
    /\ TimeFieldOk(o, "created_at")
    /\ TimeFieldOk(o, "updated_at")

VCSAPIResponse(o) ==
    [ID |-> Field(o, "id", ""),
     Name |-> Field(o, "name", ""),
     VcsType |-> Field(o, "vcsType", ""),
     URL |-> Field(o, "endpoint", ""),
     ClientId |-> Field(o, "clientId", ""),
     Description |-> Field(o, "description", ""),
     CreatedAt |-> TimeField(o, "created_at"),
     UpdatedAt |-> TimeField(o, "updated_at")]

\* json.Marshal of VCSCreateRequest: only description is omitempty.
VCSCreateRequestJSON(r) ==
    LET keys == {"name", "vcsType", "endpoint", "clientId", "clientSecret"}
                \cup {k \in {"description"} : r[k] # ""}
    IN  [k \in keys |-> r[k]]

\* json.Marshal of VCSUpdateRequest: every field is omitempty.
VCSUpdateRequestJSON(r) ==
    LET keys == {k \in {"name", "vcsType", "endpoint", "clientId", "clientSecret",
                        "description"} : r[k] # ""}
    IN  [k \in keys |-> r[k]]

VCSCollectionURL(org) == <<"https", "api", "organizations", org, "vcs">>
VCSURL(org, id) == <<"https", "api", "organizations", org, "vcs", id>>

\* A handler that would take every field, the secret included, from the
\* response struct, which has no field for the secret.
VCSFromResponseWithSecret(data, vcs) ==
    [data EXCEPT
        !.id = StringValue(vcs.ID),
        !.name = StringValue(vcs.Name),
        !.vcs_type = StringValue(vcs.VcsType),
        !.url = StringValue(vcs.URL),
        !.client_id = StringValue(vcs.ClientId),
        !.client_secret = StringValue(""),
        !.description = StringValue(vcs.Description),
        !.created_at = StringValue(FormatRFC3339(vcs.CreatedAt)),
        !.updated_at = StringValue(FormatRFC3339(vcs.UpdatedAt))]

\* The response fields a handler copies into the model; client_secret and
\* organization_name keep the value the model already holds.
VCSFromResponse(data, vcs) ==
    [data EXCEPT
        !.id = StringValue(vcs.ID),
        !.name = StringValue(vcs.Name),
        !.vcs_type = StringValue(vcs.VcsType),
        !.url = StringValue(vcs.URL),
        !.client_id = StringValue(vcs.ClientId),
        !.description = StringValue(vcs.Description),
        !.created_at = StringValue(FormatRFC3339(vcs.CreatedAt)),
        !.updated_at = StringValue(FormatRFC3339(vcs.UpdatedAt))]

VCSCreateOut(p, r) ==
    LET createReq == [name |-> ValueString(p.name),
                      vcsType |-> ValueString(p.vcs_type),
                      endpoint |-> ValueString(p.url),
                      clientId |-> ValueString(p.client_id),
                      clientSecret |-> ValueString(p.client_secret),
                      description |-> ValueString(p.description)]
        req == Request("POST", VCSCollectionURL(ValueString(p.organization_name)),
                       VCSCreateRequestJSON(createReq))
    IN  IF r.fail = "do"
        THEN Outcome(<<req>>, <<Diag("HTTP request failed", ErrText)>>, <<>>)
        ELSE IF r.fail = "read"
        THEN Outcome(<<req>>, <<Diag("Error reading response body", ErrText)>>, <<>>)
        ELSE IF ~CreateAccepts(r.status)
        THEN Outcome(<<req>>, <<Diag("Non-201 response", StatusAndBody(r))>>, <<>>)
        ELSE IF ~(r.body.valid /\ VCSUnmarshalOk(r.body.obj))
        THEN Outcome(<<req>>, <<Diag("Error parsing response", ErrText)>>, <<>>)
        ELSE Outcome(<<req>>, <<>>, <<VCSFromResponse(p, VCSAPIResponse(r.body.obj))>>)

VCSReadOut(data, r) ==
    LET req == Request("GET", VCSURL(ValueString(data.organization_name),
                                     ValueString(data.id)), NoBody)
    IN  IF r.fail = "do"
        THEN Outcome(<<req>>, <<Diag("HTTP request failed", ErrText)>>, <<data>>)
        ELSE IF ReadRemoves(r.status)
        THEN Outcome(<<req>>, <<>>, <<>>)
        ELSE IF ~ReadAccepts(r.status)
        THEN Outcome(<<req>>, <<Diag("Read failed", StatusOnly(r))>>, <<data>>)
        ELSE IF r.fail = "read"
        THEN Outcome(<<req>>, <<Diag("Error reading response body", ErrText)>>, <<data>>)
        ELSE IF ~(r.body.valid /\ VCSUnmarshalOk(r.body.obj))
        THEN Outcome(<<req>>, <<Diag("Error parsing response", ErrText)>>, <<data>>)
        ELSE Outcome(<<req>>, <<>>, <<VCSFromResponse(data, VCSAPIResponse(r.body.obj))>>)

\* An Update that leaves the secret out of its request.
VCSUpdatePayloadWithoutSecret(p, s) ==
    VCSUpdateRequestJSON(
        [name |-> IF ~Equal(p.name, s.name) THEN ValueString(p.name) ELSE "",
         vcsType |-> IF ~Equal(p.vcs_type, s.vcs_type) THEN ValueString(p.vcs_type) ELSE "",
         endpoint |-> IF ~Equal(p.url, s.url) THEN ValueString(p.url) ELSE "",
         clientId |-> IF ~Equal(p.client_id, s.client_id)
                      THEN ValueString(p.client_id) ELSE "",
         clientSecret |-> "",
         description |-> IF ~Equal(p.description, s.description)
                         THEN ValueString(p.description) ELSE ""])

VCSUpdatePayload(p, s) ==
    VCSUpdateRequestJSON(
        [name |-> IF ~Equal(p.name, s.name) THEN ValueString(p.name) ELSE "",
         vcsType |-> IF ~Equal(p.vcs_type, s.vcs_type) THEN ValueString(p.vcs_type) ELSE "",
         endpoint |-> IF ~Equal(p.url, s.url) THEN ValueString(p.url) ELSE "",
         clientId |-> IF ~Equal(p.client_id, s.client_id)
                      THEN ValueString(p.client_id) ELSE "",
         clientSecret |-> IF ~Equal(p.client_secret, s.client_secret)
                          THEN ValueString(p.client_secret) ELSE "",
         description |-> IF ~Equal(p.description, s.description)
                         THEN ValueString(p.description) ELSE ""])

VCSUpdateOut(p, s, r) ==
    LET req == Request("PATCH", VCSURL(ValueString(p.organization_name),
                                       ValueString(p.id)),
                       VCSUpdatePayload(p, s))
    IN  IF r.fail = "do"
        THEN Outcome(<<req>>, <<Diag("HTTP request failed", ErrText)>>, <<s>>)
        ELSE IF r.fail = "read"
        THEN Outcome(<<req>>, <<Diag("Error reading response body", ErrText)>>, <<s>>)
        ELSE IF ~UpdateAccepts(r.status)
        THEN Outcome(<<req>>, <<Diag("Update failed", StatusAndBody(r))>>, <<s>>)
        ELSE IF ~(r.body.valid /\ VCSUnmarshalOk(r.body.obj))
        THEN Outcome(<<req>>, <<Diag("Error parsing response", ErrText)>>, <<s>>)
        ELSE Outcome(<<req>>, <<>>, <<VCSFromResponse(p, VCSAPIResponse(r.body.obj))>>)

VCSDeleteOut(data, r) ==
    LET req == Request("DELETE", VCSURL(ValueString(data.organization_name),
                                        ValueString(data.id)), NoBody)
    IN  IF r.fail = "do"
        THEN Outcome(<<req>>, <<Diag("HTTP request failed", ErrText)>>, <<data>>)
        ELSE IF r.fail = "read"
        THEN Outcome(<<req>>, <<Diag("Error reading response body", ErrText)>>, <<data>>)
        ELSE IF ~DeleteAccepts(r.status)
        THEN Outcome(<<req>>, <<Diag("Delete failed", StatusAndBody(r))>>, <<data>>)
        ELSE Outcome(<<req>>, <<>>, <<>>)

----------------------------------------------------------------------------
(* Workspace resource.                                                     *)

\* types.Object for the nested vcs attribute.
ObjectNull == [st |-> "null", v |-> <<>>]
ObjectUnknown == [st |-> "unknown", v |-> <<>>]
ObjectValue(attrs) == [st |-> "known", v |-> attrs]

WorkspacePlanBase ==
    [organization_name |-> StringValue("acme"),
     name |-> StringValue("ws-a"),
     description |-> StringNull,
     source |-> StringValue("https://github.com/acme/infra"),
     branch |-> StringValue("main"),
     terraform_version |-> StringValue("1.5.0"),
     vcs_id |-> StringNull]

\* description and vcs_id are optional with no default: null when not set.
WorkspaceConfigs ==
    Variants(WorkspacePlanBase,
             [organization_name |-> {StringValue("globex")},
              name |-> {StringValue("ws-b")},
              description |-> {StringValue("main"), StringValue("")},
              source |-> {StringValue("https://github.com/acme/net")},
              branch |-> {StringValue("dev")},
              terraform_version |-> {StringValue("1.6.0")},
              vcs_id |-> {StringValue("id-1")}])

\* id, created_at, updated_at and vcs are computed.
WorkspacePlan(c, id) ==
    [id |-> id,
     organization_name |-> c.organization_name,
     name |-> c.name,
     description |-> c.description,
     source |-> c.source,
     branch |-> c.branch,
     terraform_version |-> c.terraform_version,
     created_at |-> StringUnknown,
     updated_at |-> StringUnknown,
     vcs_id |-> c.vcs_id,
     vcs |-> ObjectUnknown]

\* The vcs key holds JSON null (<<>>) or one VCS object (<<object>>).
WorkspaceObjectBase ==
    [id |-> "id-1", name |-> "ws-a", description |-> "",
     source |-> "https://github.com/acme/infra", branch |-> "main",
     terraform_version |-> "1.5.0",
     created_at |-> "2025-07-07T12:00:00Z", updated_at |-> "2025-07-07T12:00:00Z",
     vcs |-> <<>>]

WithoutKey(o, k) == [x \in DOMAIN o \ {k} |-> o[x]]

WorkspaceObjects ==
    Variants(WorkspaceObjectBase,
             [id |-> Ids,
              name |-> {"ws-b"},
              description |-> {"main"},
              source |-> {"https://github.com/acme/net"},
              branch |-> {"dev"},
              terraform_version |-> {"1.6.0"},
              created_at |-> {"2025-07-07T12:00:00.5Z", BadTimeText},
              updated_at |-> {"2025-07-07T12:01:00Z"},
              vcs |-> {<<VCSObjectBase>>,
                       <<[VCSObjectBase EXCEPT !.created_at = "2025-07-07T12:00:00.5Z"]>>}])
    \cup {WithoutKey(WorkspaceObjectBase, "vcs")}

WorkspaceResponses == Responses(WorkspaceObjects, WorkspaceObjectBase)

\* json.Unmarshal into WorkspaceAPIResponse, whose VCS field is a pointer to
\* a VCSAPIResponse.
WorkspaceUnmarshalOk(o) ==
    /\ TimeFieldOk(o, "created_at")
    /\ TimeFieldOk(o, "updated_at")
    /\ \A i \in DOMAIN Field(o, "vcs", <<>>) : VCSUnmarshalOk(o["vcs"][i])

WorkspaceAPIResponse(o) ==
    [ID |-> Field(o, "id", ""),
     Name |-> Field(o, "name", ""),
     Description |-> Field(o, "description", ""),
     Source |-> Field(o, "source", ""),
     Branch |-> Field(o, "branch", ""),
     TerraformVersion |-> Field(o, "terraform_version", ""),
     CreatedAt |-> TimeField(o, "created_at"),
     UpdatedAt |-> TimeField(o, "updated_at"),
     VCS |-> [i \in DOMAIN Field(o, "vcs", <<>>) |-> VCSAPIResponse(o["vcs"][i])]]

\* A conversion that drops the sub-record.
vcsToObjectAlwaysNull(vcs) == ObjectNull

\* vcs is the pointer: <<>> when nil.
vcsToObject(vcs) ==
    IF vcs = <<>>
    THEN ObjectNull
    ELSE ObjectValue(
            [id |-> StringValue(vcs[1].ID),
             name |-> StringValue(vcs[1].Name),
             vcs_type |-> StringValue(vcs[1].VcsType),
             url |-> StringValue(vcs[1].URL),
             description |-> StringValue(vcs[1].Description),
             created_at |-> StringValue(FormatRFC3339(vcs[1].CreatedAt)),
             updated_at |-> StringValue(FormatRFC3339(vcs[1].UpdatedAt))])

\* json.Marshal of WorkspaceCreateRequest: only description is omitempty.
WorkspaceCreateRequestJSON(r) ==
    LET keys == {"name", "source", "branch", "terraform_version"}
                \cup {k \in {"description"} : r[k] # ""}
    IN  [k \in keys |-> r[k]]

\* json.Marshal of WorkspaceUpdateRequest: every field is omitempty.
WorkspaceUpdateRequestJSON(r) ==
    LET keys == {k \in {"name", "description", "source", "branch",
                        "terraform_version"} : r[k] # ""}
    IN  [k \in keys |-> r[k]]

WorkspaceCollectionURL(org) == <<"https", "api", "organizations", org, "workspaces">>
WorkspaceURL(org, name) == <<"https", "api", "organizations", org, "workspaces", name>>

\* A handler that keeps the name the model already holds.
WorkspaceFromResponseKeepingName(data, workspace) ==
    [data EXCEPT
        !.id = StringValue(workspace.ID),
        !.description = StringValue(workspace.Description),
        !.source = StringValue(workspace.Source),
        !.branch = StringValue(workspace.Branch),
        !.terraform_version = StringValue(workspace.TerraformVersion),
        !.created_at = StringValue(FormatRFC3339(workspace.CreatedAt)),
        !.updated_at = StringValue(FormatRFC3339(workspace.UpdatedAt)),
        !.vcs = vcsToObject(workspace.VCS)]

\* The response fields a handler copies into the model; organization_name
\* and vcs_id keep the value the model already holds.
WorkspaceFromResponse(data, workspace) ==
    [data EXCEPT
        !.id = StringValue(workspace.ID),
        !.name = StringValue(workspace.Name),
        !.description = StringValue(workspace.Description),
        !.source = StringValue(workspace.Source),
        !.branch = StringValue(workspace.Branch),
        !.terraform_version = StringValue(workspace.TerraformVersion),
        !.created_at = StringValue(FormatRFC3339(workspace.CreatedAt)),
        !.updated_at = StringValue(FormatRFC3339(workspace.UpdatedAt)),
        !.vcs = vcsToObject(workspace.VCS)]

WorkspaceCreateOut(p, r) ==
    LET createReq == [name |-> ValueString(p.name),
                      description |-> ValueString(p.description),
                      source |-> ValueString(p.source),
                      branch |-> ValueString(p.branch),
                      terraform_version |-> ValueString(p.terraform_version)]
        req == Request("POST", WorkspaceCollectionURL(ValueString(p.organization_name)),
                       WorkspaceCreateRequestJSON(createReq))
    IN  IF r.fail = "do"
        THEN Outcome(<<req>>, <<Diag("HTTP request failed", ErrText)>>, <<>>)
        ELSE IF r.fail = "read"
        THEN Outcome(<<req>>, <<Diag("Error reading response body", ErrText)>>, <<>>)
        ELSE IF ~CreateAccepts(r.status)
        THEN Outcome(<<req>>, <<Diag("Non-201 response", StatusAndBody(r))>>, <<>>)
        ELSE IF ~(r.body.valid /\ WorkspaceUnmarshalOk(r.body.obj))
        THEN Outcome(<<req>>, <<Diag("Error parsing response", ErrText)>>, <<>>)
        ELSE Outcome(<<req>>, <<>>,
                     <<WorkspaceFromResponse(p, WorkspaceAPIResponse(r.body.obj))>>)

WorkspaceReadOut(data, r) ==
    LET req == Request("GET", WorkspaceURL(ValueString(data.organization_name),
                                           ValueString(data.name)), NoBody)
    IN  IF r.fail = "do"
        THEN Outcome(<<req>>, <<Diag("HTTP request failed", ErrText)>>, <<data>>)
        ELSE IF ReadRemoves(r.status)
        THEN Outcome(<<req>>, <<>>, <<>>)
        ELSE IF ~ReadAccepts(r.status)
        THEN Outcome(<<req>>, <<Diag("Read failed", StatusOnly(r))>>, <<data>>)
        ELSE IF r.fail = "read"
        THEN Outcome(<<req>>, <<Diag("Error reading response body", ErrText)>>, <<data>>)
        ELSE IF ~(r.body.valid /\ WorkspaceUnmarshalOk(r.body.obj))
        THEN Outcome(<<req>>, <<Diag("Error parsing response", ErrText)>>, <<data>>)
        ELSE Outcome(<<req>>, <<>>,
                     <<WorkspaceFromResponse(data, WorkspaceAPIResponse(r.body.obj))>>)

WorkspaceUpdatePayload(p, s) ==
    WorkspaceUpdateRequestJSON(
        [name |-> IF ~Equal(p.name, s.name) THEN ValueString(p.name) ELSE "",
         description |-> IF ~Equal(p.description, s.description)
                         THEN ValueString(p.description) ELSE "",
         source |-> IF ~Equal(p.source, s.source) THEN ValueString(p.source) ELSE "",
         branch |-> IF ~Equal(p.branch, s.branch) THEN ValueString(p.branch) ELSE "",
         terraform_version |-> IF ~Equal(p.terraform_version, s.terraform_version)
                               THEN ValueString(p.terraform_version) ELSE ""])

\* The URL takes the organization from the plan and the name from the state.
WorkspaceUpdateOut(p, s, r) ==
    LET req == Request("PATCH", WorkspaceURL(ValueString(p.organization_name),
                                             ValueString(s.name)),
                       WorkspaceUpdatePayload(p, s))
    IN  IF r.fail = "do"
        THEN Outcome(<<req>>, <<Diag("HTTP request failed", ErrText)>>, <<s>>)
        ELSE IF r.fail = "read"
        THEN Outcome(<<req>>, <<Diag("Error reading response body", ErrText)>>, <<s>>)
        ELSE IF ~UpdateAccepts(r.status)
        THEN Outcome(<<req>>, <<Diag("Update failed", StatusAndBody(r))>>, <<s>>)
        ELSE IF ~(r.body.valid /\ WorkspaceUnmarshalOk(r.body.obj))
        THEN Outcome(<<req>>, <<Diag("Error parsing response", ErrText)>>, <<s>>)
        ELSE Outcome(<<req>>, <<>>,
                     <<WorkspaceFromResponse(p, WorkspaceAPIResponse(r.body.obj))>>)

WorkspaceDeleteOut(data, r) ==
    LET req == Request("DELETE", WorkspaceURL(ValueString(data.organization_name),
                                              ValueString(data.name)), NoBody)
    IN  IF r.fail = "do"
        THEN Outcome(<<req>>, <<Diag("HTTP request failed", ErrText)>>, <<data>>)
        ELSE IF r.fail = "read"
        THEN Outcome(<<req>>, <<Diag("Error reading response body", ErrText)>>, <<data>>)
        ELSE IF ~DeleteAccepts(r.status)
        THEN Outcome(<<req>>, <<Diag("Delete failed", StatusAndBody(r))>>, <<data>>)
        ELSE Outcome(<<req>>, <<>>, <<>>)

----------------------------------------------------------------------------
(* Variable resource.                                                      *)

VariablePlanBase ==
    [organization_name |-> StringValue("acme"),
     key |-> StringValue("region"),
     value |-> StringValue("us-west-2"),
     description |-> StringValue(""),
     category |-> StringValue("terraform"),
     sensitive |-> BoolValue(FALSE),
     hcl |-> BoolValue(FALSE)]

\* organization_name, key and value are required; description defaults to
\* "", category to "terraform", sensitive and hcl to false.
VariableConfigs ==
    Variants(VariablePlanBase,
             [organization_name |-> {StringValue("globex")},
              key |-> {StringValue("zone")},
              value |-> {StringValue("eu-1")},
              description |-> {StringValue("main")},
              category |-> {StringValue("env")},
              sensitive |-> {BoolValue(TRUE)},
              hcl |-> {BoolValue(TRUE)}])

\* id is computed and takes the prior state's value (UseStateForUnknown);
\* created_at and updated_at are computed.
VariablePlan(c, id) ==
    [id |-> id,
     organization_name |-> c.organization_name,
     key |-> c.key,
     value |-> c.value,
     description |-> c.description,
     category |-> c.category,
     sensitive |-> c.sensitive,
     hcl |-> c.hcl,
     created_at |-> StringUnknown,
     updated_at |-> StringUnknown]

VariableObjectBase ==
    [id |-> "id-1", key |-> "region", value |-> "us-west-2", description |-> "",
     category |-> "terraform", sensitive |-> FALSE, hcl |-> FALSE,
     created_at |-> "2025-07-07T12:00:00Z", updated_at |-> "2025-07-07T12:00:00Z"]

VariableObjects ==
    Variants(VariableObjectBase,
             [id |-> Ids,
              key |-> {"zone"},
              value |-> {"eu-1", ""},
              description |-> {"main"},
              category |-> {"env"},
              sensitive |-> {TRUE},
              hcl |-> {TRUE},
              created_at |-> {"2025-07-07T12:00:00.5Z", BadTimeText},
              updated_at |-> {"2025-07-07T12:01:00Z"}])
    \cup {WithoutKey([VariableObjectBase EXCEPT !.sensitive = TRUE], "value")}

VariableResponses == Responses(VariableObjects, VariableObjectBase)

\* json.Unmarshal into VariableAPIResponse.
VariableUnmarshalOk(o) ==
    /\ TimeFieldOk(o, "created_at")
    /\ TimeFieldOk(o, "updated_at")

VariableAPIResponse(o) ==
    [ID |-> Field(o, "id", ""),
     Key |-> Field(o, "key", ""),
     Value |-> Field(o, "value", ""),
     Description |-> Field(o, "description", ""),
     Category |-> Field(o, "category", ""),
     Sensitive |-> Field(o, "sensitive", FALSE),
     HCL |-> Field(o, "hcl", FALSE),
     CreatedAt |-> TimeField(o, "created_at"),
     UpdatedAt |-> TimeField(o, "updated_at")]

\* json.Marshal of VariableCreateRequest: key and value are always written,
\* the other fields are omitempty.
VariableCreateRequestJSON(r) ==
    LET keys == {"key", "value"}
                \cup {k \in {"description", "category"} : r[k] # ""}
                \cup {k \in {"sensitive", "hcl"} : r[k] # FALSE}
    IN  [k \in keys |-> r[k]]

\* json.Marshal of VariableUpdateRequest: every field is omitempty; Sensitive
\* and HCL are pointers (<<>> when nil) and are written whenever they are set.
VariableUpdateRequestJSON(r) ==
    LET keys == {k \in {"key", "value", "description", "category"} : r[k] # ""}
                \cup {k \in {"sensitive", "hcl"} : r[k] # <<>>}
    IN  [k \in keys |-> IF k \in {"sensitive", "hcl"} THEN r[k][1] ELSE r[k]]

VariableCollectionURL(org) == <<"http", "api", "organizations", org, "variables">>
VariableURL(org, id) == <<"http", "api", "organizations", org, "variables", id>>

\* The response fields a handler copies into the model; organization_name
\* keeps the value the model already holds.
VariableFromResponse(data, variable) ==
    [data EXCEPT
        !.id = StringValue(variable.ID),
        !.key = StringValue(variable.Key),
        !.value = StringValue(variable.Value),
        !.description = StringValue(variable.Description),
        !.category = StringValue(variable.Category),
        !.sensitive = BoolValue(variable.Sensitive),
        !.hcl = BoolValue(variable.HCL),
        !.created_at = StringValue(FormatRFC3339(variable.CreatedAt)),
        !.updated_at = StringValue(FormatRFC3339(variable.UpdatedAt))]

VariableCreateOut(p, r) ==
    LET createReq == [key |-> ValueString(p.key),
                      value |-> ValueString(p.value),
                      description |-> ValueString(p.description),
                      category |-> ValueString(p.category),
                      sensitive |-> ValueBool(p.sensitive),
                      hcl |-> ValueBool(p.hcl)]
        req == Request("POST", VariableCollectionURL(ValueString(p.organization_name)),
                       VariableCreateRequestJSON(createReq))
    IN  IF r.fail = "do"
        THEN Outcome(<<req>>, <<Diag("HTTP request failed", ErrText)>>, <<>>)
        ELSE IF r.fail = "read"
        THEN Outcome(<<req>>, <<Diag("Error reading response body", ErrText)>>, <<>>)
        ELSE IF ~CreateAccepts(r.status)
        THEN Outcome(<<req>>, <<Diag("Non-201 response", StatusAndBody(r))>>, <<>>)
        ELSE IF ~(r.body.valid /\ VariableUnmarshalOk(r.body.obj))
        THEN Outcome(<<req>>, <<Diag("Error parsing response", ErrText)>>, <<>>)
        ELSE Outcome(<<req>>, <<>>,
                     <<VariableFromResponse(p, VariableAPIResponse(r.body.obj))>>)

VariableReadOut(data, r) ==
    LET req == Request("GET", VariableURL(ValueString(data.organization_name),
                                          ValueString(data.id)), NoBody)
    IN  IF r.fail = "do"
        THEN Outcome(<<req>>, <<Diag("HTTP request failed", ErrText)>>, <<data>>)
        ELSE IF ReadRemoves(r.status)
        THEN Outcome(<<req>>, <<>>, <<>>)
        ELSE IF ~ReadAccepts(r.status)
        THEN Outcome(<<req>>, <<Diag("Read failed", StatusOnly(r))>>, <<data>>)
        ELSE IF r.fail = "read"
        THEN Outcome(<<req>>, <<Diag("Error reading response body", ErrText)>>, <<data>>)
        ELSE IF ~(r.body.valid /\ VariableUnmarshalOk(r.body.obj))
        THEN Outcome(<<req>>, <<Diag("Error parsing response", ErrText)>>, <<data>>)
        ELSE Outcome(<<req>>, <<>>,
                     <<VariableFromResponse(data, VariableAPIResponse(r.body.obj))>>)

VariableUpdatePayload(p, s) ==
    VariableUpdateRequestJSON(
        [key |-> IF ~Equal(p.key, s.key) THEN ValueString(p.key) ELSE "",
         value |-> IF ~Equal(p.value, s.value) THEN ValueString(p.value) ELSE "",
         description |-> IF ~Equal(p.description, s.description)
                         THEN ValueString(p.description) ELSE "",
         category |-> IF ~Equal(p.category, s.category)
                      THEN ValueString(p.category) ELSE "",
         sensitive |-> IF ~Equal(p.sensitive, s.sensitive)
                       THEN <<ValueBool(p.sensitive)>> ELSE <<>>,
         hcl |-> IF ~Equal(p.hcl, s.hcl) THEN <<ValueBool(p.hcl)>> ELSE <<>>])

VariableUpdateOut(p, s, r) ==
    LET req == Request("PATCH", VariableURL(ValueString(p.organization_name),
                                            ValueString(p.id)),
                       VariableUpdatePayload(p, s))
    IN  IF r.fail = "do"
        THEN Outcome(<<req>>, <<Diag("HTTP request failed", ErrText)>>, <<s>>)
        ELSE IF r.fail = "read"
        THEN Outcome(<<req>>, <<Diag("Error reading response body", ErrText)>>, <<s>>)
        ELSE IF ~UpdateAccepts(r.status)
        THEN Outcome(<<req>>, <<Diag("Update failed", StatusAndBody(r))>>, <<s>>)
        ELSE IF ~(r.body.valid /\ VariableUnmarshalOk(r.body.obj))
        THEN Outcome(<<req>>, <<Diag("Error parsing response", ErrText)>>, <<s>>)
        ELSE Outcome(<<req>>, <<>>,
                     <<VariableFromResponse(p, VariableAPIResponse(r.body.obj))>>)

VariableDeleteOut(data, r) ==
    LET req == Request("DELETE", VariableURL(ValueString(data.organization_name),
                                             ValueString(data.id)), NoBody)
    IN  IF r.fail = "do"
        THEN Outcome(<<req>>, <<Diag("HTTP request failed", ErrText)>>, <<data>>)
        ELSE IF r.fail = "read"
        THEN Outcome(<<req>>, <<Diag("Error reading response body", ErrText)>>, <<data>>)
        ELSE IF ~DeleteAccepts(r.status)
        THEN Outcome(<<req>>, <<Diag("Delete failed", StatusAndBody(r))>>, <<data>>)
        ELSE Outcome(<<req>>, <<>>, <<>>)

----------------------------------------------------------------------------
(* Import.  An import ID is a text; it is held as the sequence of its      *)
(* pieces, each piece a colon or a text without colon, no two texts        *)
(* adjacent.                                                               *)

\* strings.Split(id, ":"): the texts between the colons, "" where two colons
\* meet or the text starts or ends with one.
RECURSIVE Split(_)
Split(id) ==
    IF id = <<>> THEN <<"">>
    ELSE IF Head(id) = ":" THEN <<"">> \o Split(Tail(id))
    ELSE IF Len(id) = 1 THEN <<Head(id)>>
    ELSE <<Head(id)>> \o Split(Tail(Tail(id)))

\* The import IDs explored for a record called name in organization org:
\* one to four segments, empty segments, and a name no record carries.
ImportIDs(org, name) ==
    {<<org, ":", name>>, <<org, ":", "absent">>, <<org, ":">>, <<":", name>>,
     <<>>, <<org>>, <<org, ":", "ws-a", ":", name>>,
     <<org, ":", "ws-a", ":", name, ":", "extra">>}

\* The last element of the list that carries the name: its index, 0 when
\* no element does.
LastNamed(list, name) ==
    LET hits == {i \in DOMAIN list : list[i].Name = name}
    IN  IF hits = {} THEN 0 ELSE CHOOSE i \in hits : \A j \in hits : j <= i

\* The first element of the list that carries the name: its index, 0 when
\* no element does.
FirstNamed(list, name) ==
    LET hits == {i \in DOMAIN list : list[i].Name = name}
    IN  IF hits = {} THEN 0 ELSE CHOOSE i \in hits : \A j \in hits : i <= j

ImportAcceptsTwoOrMore(parts) == Len(parts) >= 2
ImportAccepts(parts) == Len(parts) = 2

ImportListAcceptsAll(status) == TRUE
ImportListAccepts(status) == status = 200

\* The records a workspace list holds: the base record, a second record of
\* the same name, records whose name differs (in case only, or wholly), a
\* record with a VCS connection and one with a malformed timestamp.
WorkspaceListObjects ==
    {WorkspaceObjectBase,
     [WorkspaceObjectBase EXCEPT !.id = "id-2", !.description = "main"],
     [WorkspaceObjectBase EXCEPT !.id = "id-2", !.name = "WS-A"],
     [WorkspaceObjectBase EXCEPT !.id = "id-2", !.name = "ws-b"],
     [WorkspaceObjectBase EXCEPT !.vcs = <<VCSObjectBase>>],
     [WorkspaceObjectBase EXCEPT !.id = "id-2", !.created_at = BadTimeText]}

WorkspaceListResponses == ListResponses(WorkspaceListObjects, WorkspaceObjectBase)

\* json.Unmarshal into []WorkspaceAPIResponse.
WorkspaceListUnmarshalOk(body) ==
    /\ IsArray(body)
    /\ \A i \in DOMAIN body.obj : WorkspaceUnmarshalOk(body.obj[i])

WorkspaceList(body) == [i \in DOMAIN body.obj |-> WorkspaceAPIResponse(body.obj[i])]

WorkspaceImportFindLast(workspaces, workspaceName) == LastNamed(workspaces, workspaceName)
WorkspaceImportFind(workspaces, workspaceName) == FirstNamed(workspaces, workspaceName)

\* The model Import builds: vcs_id is not assigned and stays null.
WorkspaceImported(organizationName, workspace) ==
    [id |-> StringValue(workspace.ID),
     organization_name |-> StringValue(organizationName),
     name |-> StringValue(workspace.Name),
     description |-> StringValue(workspace.Description),
     source |-> StringValue(workspace.Source),
     branch |-> StringValue(workspace.Branch),
     terraform_version |-> StringValue(workspace.TerraformVersion),
     created_at |-> StringValue(FormatRFC3339(workspace.CreatedAt)),
     updated_at |-> StringValue(FormatRFC3339(workspace.UpdatedAt)),
     vcs_id |-> StringNull,
     vcs |-> vcsToObject(workspace.VCS)]

WorkspaceImportOut(id, r) ==
    LET parts == Split(id)
        organizationName == parts[1]
        workspaceName == parts[2]
        req == Request("GET", WorkspaceCollectionURL(organizationName), NoBody)
        workspaces == WorkspaceList(r.body)
        found == WorkspaceImportFind(workspaces, workspaceName)
    IN  IF ~ImportAccepts(parts)
        THEN Outcome(<<>>, <<Diag("Invalid import ID format", ErrText)>>, <<>>)
        ELSE IF r.fail = "do"
        THEN Outcome(<<req>>, <<Diag("HTTP request failed", ErrText)>>, <<>>)
        ELSE IF ~ImportListAccepts(r.status)
        THEN Outcome(<<req>>, <<Diag("Failed to fetch workspaces", StatusAndBody(r))>>, <<>>)
        ELSE IF r.fail = "read"
        THEN Outcome(<<req>>, <<Diag("Error reading response body", ErrText)>>, <<>>)
        ELSE IF ~WorkspaceListUnmarshalOk(r.body)
        THEN Outcome(<<req>>, <<Diag("Error parsing response", ErrText)>>, <<>>)
        ELSE IF found = 0
        THEN Outcome(<<req>>,
                     <<Diag("Workspace not found",
                            [name |-> workspaceName, organization |-> organizationName])>>,
                     <<>>)
        ELSE Outcome(<<req>>, <<>>,
                     <<WorkspaceImported(organizationName, workspaces[found])>>)

\* The records a VCS list holds, as for the workspace list.
VCSListObjects ==
    {VCSObjectBase,
     [VCSObjectBase EXCEPT !.id = "id-2", !.description = "main"],
     [VCSObjectBase EXCEPT !.id = "id-2", !.name = "GH"],
     [VCSObjectBase EXCEPT !.id = "id-2", !.name = "gl"],
     [VCSObjectBase EXCEPT !.id = "id-2", !.created_at = BadTimeText]}

VCSListResponses == ListResponses(VCSListObjects, VCSObjectBase)

\* json.Unmarshal into []VCSAPIResponse.
VCSListUnmarshalOk(body) ==
    /\ IsArray(body)
    /\ \A i \in DOMAIN body.obj : VCSUnmarshalOk(body.obj[i])

VCSList(body) == [i \in DOMAIN body.obj |-> VCSAPIResponse(body.obj[i])]

VCSImportFind(vcsList, vcsName) == FirstNamed(vcsList, vcsName)

\* The model Import builds: client_secret is not assigned and stays null.
VCSImported(organizationName, vcs) ==
    [id |-> StringValue(vcs.ID),
     organization_name |-> StringValue(organizationName),
     name |-> StringValue(vcs.Name),
     vcs_type |-> StringValue(vcs.VcsType),
     url |-> StringValue(vcs.URL),
     client_id |-> StringValue(vcs.ClientId),
     client_secret |-> StringNull,
     description |-> StringValue(vcs.Description),
     created_at |-> StringValue(FormatRFC3339(vcs.CreatedAt)),
     updated_at |-> StringValue(FormatRFC3339(vcs.UpdatedAt))]

VCSImportOut(id, r) ==
    LET parts == Split(id)
        organizationName == parts[1]
        vcsName == parts[2]
        req == Request("GET", VCSCollectionURL(organizationName), NoBody)
        vcsList == VCSList(r.body)
        found == VCSImportFind(vcsList, vcsName)
    IN  IF ~ImportAccepts(parts)
        THEN Outcome(<<>>, <<Diag("Invalid import ID format", ErrText)>>, <<>>)
        ELSE IF r.fail = "do"
        THEN Outcome(<<req>>, <<Diag("HTTP request failed", ErrText)>>, <<>>)
        ELSE IF ~ImportListAccepts(r.status)
        THEN Outcome(<<req>>, <<Diag("Failed to fetch VCS connections", StatusAndBody(r))>>, <<>>)
        ELSE IF r.fail = "read"
        THEN Outcome(<<req>>, <<Diag("Error reading response body", ErrText)>>, <<>>)
        ELSE IF ~VCSListUnmarshalOk(r.body)
        THEN Outcome(<<req>>, <<Diag("Error parsing response", ErrText)>>, <<>>)
        ELSE IF found = 0
        THEN Outcome(<<req>>,
                     <<Diag("VCS connection not found",
                            [name |-> vcsName, organization |-> organizationName])>>,
                     <<>>)
        ELSE Outcome(<<req>>, <<>>, <<VCSImported(organizationName, vcsList[found])>>)

\* Variable Import.  The ID is "org:key" for a variable of the organization
\* and "org:workspace:key" for a variable of a workspace.

VariableImportAcceptsTwo(parts) == Len(parts) = 2
VariableImportAccepts(parts) == Len(parts) \in {2, 3}

\* The records a variable list holds: the base record, a second record of
\* the same key, a record of another key, a record that names its workspace
\* and a record with a malformed timestamp.
VariableListObjects ==
    {WithKey(VariableObjectBase, "workspace", ""),
     WithKey([VariableObjectBase EXCEPT !.id = "id-2", !.value = "eu-1"], "workspace", ""),
     WithKey([VariableObjectBase EXCEPT !.id = "id-2", !.key = "zone"], "workspace", ""),
     WithKey(VariableObjectBase, "workspace", "workspace-id-1"),
     [VariableObjectBase EXCEPT !.id = "id-2", !.created_at = BadTimeText]}

VariableListUnmarshalOk(body) ==
    /\ IsArray(body)
    /\ \A i \in DOMAIN body.obj : VariableUnmarshalOk(body.obj[i])

VariableList(body) ==
    [i \in DOMAIN body.obj |->
        [api |-> VariableAPIResponse(body.obj[i]),
         Workspace |-> Field(body.obj[i], "workspace", "")]]

VariableImportFind(variables, key) ==
    LET hits == {i \in DOMAIN variables : variables[i].api.Key = key}
    IN  IF hits = {} THEN 0 ELSE CHOOSE i \in hits : \A j \in hits : i <= j

VariableImported(parts, variable) ==
    [id |-> StringValue(variable.api.ID),
     organization_name |-> StringValue(parts[1]),
     key |-> StringValue(variable.api.Key),
     value |-> StringValue(variable.api.Value),
     description |-> StringValue(variable.api.Description),
     category |-> StringValue(variable.api.Category),
     sensitive |-> BoolValue(variable.api.Sensitive),
     hcl |-> BoolValue(variable.api.HCL),
     created_at |-> StringValue(FormatRFC3339(variable.api.CreatedAt)),
     updated_at |-> StringValue(FormatRFC3339(variable.api.UpdatedAt)),
     workspace |-> IF Len(parts) = 3 THEN StringValue(variable.Workspace) ELSE StringNull]

VariableImportOut(id, r) ==
    LET parts == Split(id)
        organizationName == parts[1]
        key == parts[Len(parts)]
        req == IF Len(parts) = 3
               THEN Request("GET", <<"http", "api", "organizations", organizationName,
                                       "workspaces", parts[2], "variables">>,
                            NoBody)
               ELSE Request("GET", VariableCollectionURL(organizationName), NoBody)
        variables == VariableList(r.body)
        found == VariableImportFind(variables, key)
    IN  IF ~VariableImportAccepts(parts)
        THEN Outcome(<<>>, <<Diag("Invalid import ID format", ErrText)>>, <<>>)
        ELSE IF r.fail = "do"
        THEN Outcome(<<req>>, <<Diag("HTTP request failed", ErrText)>>, <<>>)
        ELSE IF ~ImportListAccepts(r.status)
        THEN Outcome(<<req>>, <<Diag("Failed to fetch variables", StatusAndBody(r))>>, <<>>)
        ELSE IF r.fail = "read"
        THEN Outcome(<<req>>, <<Diag("Error reading response body", ErrText)>>, <<>>)
        ELSE IF ~VariableListUnmarshalOk(r.body)
        THEN Outcome(<<req>>, <<Diag("Error parsing response", ErrText)>>, <<>>)
        ELSE IF found = 0
        THEN Outcome(<<req>>,
                     <<Diag("Variable not found",
                            [name |-> key, organization |-> organizationName])>>,
                     <<>>)
        ELSE Outcome(<<req>>, <<>>, <<VariableImported(parts, variables[found])>>)

----------------------------------------------------------------------------
(* Data sources.  The configuration gives the filter: each of its          *)
(* attributes is null or known.                                            *)

IsNull(a) == a.st = "null"

\* The filters explored: every combination of a null or set id,
\* organization_name and name, the name that of a record, of no record, or
\* empty.
ScopedFilters(org, name) ==
    [id : {StringNull, StringValue("id-1")},
     organization_name : {StringNull, StringValue(org)},
     name : {StringNull, StringValue(name), StringValue("absent"), StringValue("")}]

ScopedFilterMissingNever(filter) == FALSE
ScopedFilterMissing(filter) ==
    \/ IsNull(filter.id) /\ (IsNull(filter.organization_name) \/ IsNull(filter.name))
    \/ ~IsNull(filter.id) /\ IsNull(filter.organization_name)

DataSourceAccepts(status) == status = 200

\* Workspace data source.

WorkspaceDataSourceFindLast(apiRespList, name) == LastNamed(apiRespList, name)
WorkspaceDataSourceFind(apiRespList, name) == FirstNamed(apiRespList, name)

vcsToObjectDataSource(vcs) ==
    IF vcs = <<>>
    THEN ObjectNull
    ELSE ObjectValue(
            [id |-> StringValue(vcs[1].ID),
             name |-> StringValue(vcs[1].Name),
             vcs_type |-> StringValue(vcs[1].VcsType),
             url |-> StringValue(vcs[1].URL),
             description |-> StringValue(vcs[1].Description),
             created_at |-> StringValue(FormatRFC3339(vcs[1].CreatedAt)),
             updated_at |-> StringValue(FormatRFC3339(vcs[1].UpdatedAt))])

WorkspaceDataSourceModel(filter, workspace) ==
    [id |-> StringValue(workspace.ID),
     organization_name |-> filter.organization_name,
     name |-> StringValue(workspace.Name),
     description |-> StringValue(workspace.Description),
     source |-> StringValue(workspace.Source),
     branch |-> StringValue(workspace.Branch),
     terraform_version |-> StringValue(workspace.TerraformVersion),
     created_at |-> StringValue(FormatRFC3339(workspace.CreatedAt)),
     updated_at |-> StringValue(FormatRFC3339(workspace.UpdatedAt)),
     vcs |-> vcsToObjectDataSource(workspace.VCS)]

WorkspaceDataSourceReadOut(filter, r) ==
    LET org == ValueString(filter.organization_name)
        req == IF ~IsNull(filter.id)
               THEN Request("GET", WorkspaceURL(org, ValueString(filter.id)), NoBody)
               ELSE Request("GET", WorkspaceCollectionURL(org), NoBody)
        apiRespList == WorkspaceList(r.body)
        found == WorkspaceDataSourceFind(apiRespList, ValueString(filter.name))
    IN  IF ScopedFilterMissing(filter)
        THEN Outcome(<<>>, <<Diag("Missing required parameter", ErrText)>>, <<>>)
        ELSE IF r.fail = "do"
        THEN Outcome(<<req>>, <<Diag("Error making HTTP request", ErrText)>>, <<>>)
        ELSE IF ~DataSourceAccepts(r.status)
        THEN Outcome(<<req>>, <<Diag("Unexpected HTTP status code", StatusOnly(r))>>, <<>>)
        ELSE IF r.fail = "read"
        THEN Outcome(<<req>>, <<Diag("Error reading response body", ErrText)>>, <<>>)
        ELSE IF ~IsNull(filter.id)
        THEN IF ~(IsObject(r.body) /\ WorkspaceUnmarshalOk(r.body.obj))
             THEN Outcome(<<req>>, <<Diag("Error parsing response", ErrText)>>, <<>>)
             ELSE Outcome(<<req>>, <<>>,
                          <<WorkspaceDataSourceModel(filter, WorkspaceAPIResponse(r.body.obj))>>)
        ELSE IF ~WorkspaceListUnmarshalOk(r.body)
        THEN Outcome(<<req>>, <<Diag("Error parsing response", ErrText)>>, <<>>)
        ELSE IF found = 0
        THEN Outcome(<<req>>,
                     <<Diag("Workspace not found",
                            [name |-> ValueString(filter.name), organization |-> org])>>,
                     <<>>)
        ELSE Outcome(<<req>>, <<>>, <<WorkspaceDataSourceModel(filter, apiRespList[found])>>)

\* VCS data source.

VCSDataSourceFind(apiRespList, name) == FirstNamed(apiRespList, name)

VCSDataSourceModel(filter, vcs) ==
    [id |-> StringValue(vcs.ID),
     organization_name |-> filter.organization_name,
     name |-> StringValue(vcs.Name),
     vcs_type |-> StringValue(vcs.VcsType),
     url |-> StringValue(vcs.URL),
     client_id |-> StringValue(vcs.ClientId),
     description |-> StringValue(vcs.Description),
     created_at |-> StringValue(FormatRFC3339(vcs.CreatedAt)),
     updated_at |-> StringValue(FormatRFC3339(vcs.UpdatedAt))]

VCSDataSourceReadOut(filter, r) ==
    LET org == ValueString(filter.organization_name)
        req == IF ~IsNull(filter.id)
               THEN Request("GET", VCSURL(org, ValueString(filter.id)), NoBody)
               ELSE Request("GET", VCSCollectionURL(org), NoBody)
        apiRespList == VCSList(r.body)
        found == VCSDataSourceFind(apiRespList, ValueString(filter.name))
    IN  IF ScopedFilterMissing(filter)
        THEN Outcome(<<>>, <<Diag("Missing required parameter", ErrText)>>, <<>>)
        ELSE IF r.fail = "do"
        THEN Outcome(<<req>>, <<Diag("Error making HTTP request", ErrText)>>, <<>>)
        ELSE IF ~DataSourceAccepts(r.status)
        THEN Outcome(<<req>>, <<Diag("Unexpected HTTP status code", StatusOnly(r))>>, <<>>)
        ELSE IF r.fail = "read"
        THEN Outcome(<<req>>, <<Diag("Error reading response body", ErrText)>>, <<>>)
        ELSE IF ~IsNull(filter.id)
        THEN IF ~(IsObject(r.body) /\ VCSUnmarshalOk(r.body.obj))
             THEN Outcome(<<req>>, <<Diag("Error parsing response", ErrText)>>, <<>>)
             ELSE Outcome(<<req>>, <<>>,
                          <<VCSDataSourceModel(filter, VCSAPIResponse(r.body.obj))>>)
        ELSE IF ~VCSListUnmarshalOk(r.body)
        THEN Outcome(<<req>>, <<Diag("Error parsing response", ErrText)>>, <<>>)
        ELSE IF found = 0
        THEN Outcome(<<req>>,
                     <<Diag("VCS connection not found",
                            [name |-> ValueString(filter.name), organization |-> org])>>,
                     <<>>)
        ELSE Outcome(<<req>>, <<>>, <<VCSDataSourceModel(filter, apiRespList[found])>>)

\* Organization data source.

OrganizationFilters ==
    [id : {StringNull, StringValue("id-1")},
     name : {StringNull, StringValue("org-a"), StringValue("absent"), StringValue("")}]

OrganizationFilterMissing(filter) == IsNull(filter.id) /\ IsNull(filter.name)

\* The records an organization list holds: the base record, a second record
\* of the same name, records whose name differs, a record with members and
\* teams and one with a malformed timestamp.
OrganizationListObjects ==
    {OrganizationObjectBase,
     [OrganizationObjectBase EXCEPT !.id = "id-2", !.execution_mode = "Local"],
     [OrganizationObjectBase EXCEPT !.id = "id-2", !.name = "ORG-A"],
     [OrganizationObjectBase EXCEPT !.id = "id-2", !.name = "org-b"],
     WithKey(WithKey(OrganizationObjectBase, "members", <<[email |-> "dev@acme.io"]>>),
             "teams", <<[name |-> "platform"]>>),
     [OrganizationObjectBase EXCEPT !.id = "id-2", !.created_at = BadTimeText]}

\* json.Unmarshal into []OrganizationAPIResponse.
OrganizationListUnmarshalOk(body) ==
    /\ IsArray(body)
    /\ \A i \in DOMAIN body.obj : OrganizationUnmarshalOk(body.obj[i])

\* OrganizationAPIResponse with the members and teams the data source reads.
OrganizationAPIResponseFull(o) ==
    [ID |-> Field(o, "id", ""),
     Name |-> Field(o, "name", ""),
     Members |-> Field(o, "members", <<>>),
     CreatedAt |-> TimeField(o, "created_at"),
     UpdatedAt |-> TimeField(o, "updated_at"),
     Teams |-> Field(o, "teams", <<>>),
     ExecutionMode |-> Field(o, "execution_mode", ""),
     AgentsEnabled |-> Field(o, "agents_enabled", FALSE)]

OrganizationList(body) ==
    [i \in DOMAIN body.obj |-> OrganizationAPIResponseFull(body.obj[i])]

OrganizationDataSourceFind(apiRespList, name) == FirstNamed(apiRespList, name)

mapOrganizationToModel(apiResp) ==
    [id |-> StringValue(apiResp.ID),
     name |-> StringValue(apiResp.Name),
     created_at |-> StringValue(FormatRFC3339(apiResp.CreatedAt)),
     updated_at |-> StringValue(FormatRFC3339(apiResp.UpdatedAt)),
     execution_mode |-> StringValue(apiResp.ExecutionMode),
     agents_enabled |-> BoolValue(apiResp.AgentsEnabled),
     members |-> [i \in DOMAIN apiResp.Members |->
                    [email |-> StringValue(apiResp.Members[i].email)]],
     teams |-> [i \in DOMAIN apiResp.Teams |->
                    [name |-> StringValue(apiResp.Teams[i].name)]]]

OrganizationDataSourceReadOut(filter, r) ==
    LET req == IF ~IsNull(filter.id)
               THEN Request("GET", <<"https", "api", "organizations", ValueString(filter.id)>>, NoBody)
               ELSE Request("GET", <<"https", "api", "organizations">>, NoBody)
        apiRespList == OrganizationList(r.body)
        found == OrganizationDataSourceFind(apiRespList, ValueString(filter.name))
    IN  IF OrganizationFilterMissing(filter)
        THEN Outcome(<<>>, <<Diag("Missing required parameter", ErrText)>>, <<>>)
        ELSE IF r.fail = "do"
        THEN Outcome(<<req>>, <<Diag("Error making HTTP request", ErrText)>>, <<>>)
        ELSE IF ~DataSourceAccepts(r.status)
        THEN Outcome(<<req>>, <<Diag("Unexpected HTTP status code", StatusOnly(r))>>, <<>>)
        ELSE IF r.fail = "read"
        THEN Outcome(<<req>>, <<Diag("Error reading response body", ErrText)>>, <<>>)
        ELSE IF ~IsNull(filter.id)
        THEN IF ~(IsObject(r.body) /\ OrganizationUnmarshalOk(r.body.obj))
             THEN Outcome(<<req>>, <<Diag("Error parsing response", ErrText)>>, <<>>)
             ELSE Outcome(<<req>>, <<>>,
                          <<mapOrganizationToModel(OrganizationAPIResponseFull(r.body.obj))>>)
        ELSE IF ~OrganizationListUnmarshalOk(r.body)
        THEN Outcome(<<req>>, <<Diag("Error parsing response", ErrText)>>, <<>>)
        ELSE IF found = 0
        THEN Outcome(<<req>>,
                     <<Diag("Organization not found", [name |-> ValueString(filter.name)])>>,
                     <<>>)
        ELSE Outcome(<<req>>, <<>>, <<mapOrganizationToModel(apiRespList[found])>>)

----------------------------------------------------------------------------
(* The state machine.                                                      *)

Kinds ==
    {"organization", "workspace", "variable", "vcs",
     "organization_data", "workspace_data", "vcs_data", "provider"}

\* The resource instances that run side by side under one provider, and the
\* resource each belongs to.
Instances == {1, 2}
InstanceKind(i) == IF i = 1 THEN "organization" ELSE "vcs"

Init ==
    /\ kind \in Kinds
    /\ state = <<>>
    /\ op = "none"
    /\ before = <<>>
    /\ plan = <<>>
    /\ arg = <<>>
    /\ requests = <<>>
    /\ response = NoResponse
    /\ diags = <<>>
    /\ config = <<>>
    /\ handle = [client |-> FALSE, host |-> "", token |-> ""]
    /\ instances = IF kind = "provider"
                   THEN [i \in Instances |->
                            [pc |-> "idle", state |-> <<>>, op |-> "none",
                             before |-> <<>>, used |-> <<>>, overlapped |-> FALSE,
                             requests |-> <<>>, response |-> NoResponse,
                             diags |-> <<>>]]
                   ELSE <<>>

\* A handler ran: record what it was given and what it left.
Ran(name, p, r, out) ==
    /\ op' = name
    /\ before' = state
    /\ plan' = p
    /\ arg' = <<>>
    /\ requests' = out.requests
    /\ response' = r
    /\ diags' = out.diags
    /\ state' = out.state
    /\ UNCHANGED <<kind, config, handle, instances>>

\* The id a plan for Update carries: the prior state's id, or unknown where
\* the schema gives id no UseStateForUnknown plan modifier.
UpdatePlanIds(k, s) ==
    IF k \in {"organization", "workspace"} THEN {s.id, StringUnknown} ELSE {s.id}

OrganizationCreate ==
    /\ kind = "organization" /\ state = <<>>
    /\ \E sc \in Scenarios({OrganizationPlan(c, StringUnknown) : c \in OrganizationConfigs},
                           OrganizationPlan(OrganizationPlanBase, StringUnknown),
                           OrganizationResponses, Ok(201, OrganizationObjectBase)) :
          Ran("Create", <<sc[1]>>, sc[2], OrganizationCreateOut(sc[1], sc[2]))

OrganizationRead ==
    /\ kind = "organization" /\ state # <<>>
    /\ \E r \in OrganizationResponses :
          Ran("Read", <<>>, r, OrganizationReadOut(state[1], r))

OrganizationUpdate ==
    /\ kind = "organization" /\ state # <<>>
    /\ \E sc \in Scenarios({OrganizationPlan(c, id) : c \in OrganizationConfigs,
                                                      id \in UpdatePlanIds(kind, state[1])},
                           OrganizationPlan(OrganizationPlanBase, state[1].id),
                           OrganizationResponses, Ok(200, OrganizationObjectBase)) :
          Ran("Update", <<sc[1]>>, sc[2], OrganizationUpdateOut(sc[1], state[1], sc[2]))

OrganizationDelete ==
    /\ kind = "organization" /\ state # <<>>
    /\ \E r \in OrganizationResponses :
          Ran("Delete", <<>>, r, OrganizationDeleteOut(state[1], r))

VCSCreate ==
    /\ kind = "vcs" /\ state = <<>>
    /\ \E sc \in Scenarios({VCSPlan(c, StringUnknown) : c \in VCSConfigs},
                           VCSPlan(VCSPlanBase, StringUnknown),
                           VCSResponses, Ok(201, VCSObjectBase)) :
          Ran("Create", <<sc[1]>>, sc[2], VCSCreateOut(sc[1], sc[2]))

VCSRead ==
    /\ kind = "vcs" /\ state # <<>>
    /\ \E r \in VCSResponses :
          Ran("Read", <<>>, r, VCSReadOut(state[1], r))

VCSUpdate ==
    /\ kind = "vcs" /\ state # <<>>
    /\ \E sc \in Scenarios({VCSPlan(c, id) : c \in VCSConfigs,
                                             id \in UpdatePlanIds(kind, state[1])},
                           VCSPlan(VCSPlanBase, state[1].id),
                           VCSResponses, Ok(200, VCSObjectBase)) :
          Ran("Update", <<sc[1]>>, sc[2], VCSUpdateOut(sc[1], state[1], sc[2]))

VCSDelete ==
    /\ kind = "vcs" /\ state # <<>>
    /\ \E r \in VCSResponses :
          Ran("Delete", <<>>, r, VCSDeleteOut(state[1], r))

WorkspaceCreate ==
    /\ kind = "workspace" /\ state = <<>>
    /\ \E sc \in Scenarios({WorkspacePlan(c, StringUnknown) : c \in WorkspaceConfigs},
                           WorkspacePlan(WorkspacePlanBase, StringUnknown),
                           WorkspaceResponses, Ok(201, WorkspaceObjectBase)) :
          Ran("Create", <<sc[1]>>, sc[2], WorkspaceCreateOut(sc[1], sc[2]))

WorkspaceRead ==
    /\ kind = "workspace" /\ state # <<>>
    /\ \E r \in WorkspaceResponses :
          Ran("Read", <<>>, r, WorkspaceReadOut(state[1], r))

WorkspaceUpdate ==
    /\ kind = "workspace" /\ state # <<>>
    /\ \E sc \in Scenarios({WorkspacePlan(c, id) : c \in WorkspaceConfigs,
                                             id \in UpdatePlanIds(kind, state[1])},
                           WorkspacePlan(WorkspacePlanBase, state[1].id),
                           WorkspaceResponses, Ok(200, WorkspaceObjectBase)) :
          Ran("Update", <<sc[1]>>, sc[2], WorkspaceUpdateOut(sc[1], state[1], sc[2]))

WorkspaceDelete ==
    /\ kind = "workspace" /\ state # <<>>
    /\ \E r \in WorkspaceResponses :
          Ran("Delete", <<>>, r, WorkspaceDeleteOut(state[1], r))

VariableCreate ==
    /\ kind = "variable" /\ state = <<>>
    /\ \E sc \in Scenarios({VariablePlan(c, StringUnknown) : c \in VariableConfigs},
                           VariablePlan(VariablePlanBase, StringUnknown),
                           VariableResponses, Ok(201, VariableObjectBase)) :
          Ran("Create", <<sc[1]>>, sc[2], VariableCreateOut(sc[1], sc[2]))

VariableRead ==
    /\ kind = "variable" /\ state # <<>>
    /\ \E r \in VariableResponses :
          Ran("Read", <<>>, r, VariableReadOut(state[1], r))

VariableUpdate ==
    /\ kind = "variable" /\ state # <<>>
    /\ \E sc \in Scenarios({VariablePlan(c, id) : c \in VariableConfigs,
                                             id \in UpdatePlanIds(kind, state[1])},
                           VariablePlan(VariablePlanBase, state[1].id),
                           VariableResponses, Ok(200, VariableObjectBase)) :
          Ran("Update", <<sc[1]>>, sc[2], VariableUpdateOut(sc[1], state[1], sc[2]))

VariableDelete ==
    /\ kind = "variable" /\ state # <<>>
    /\ \E r \in VariableResponses :
          Ran("Delete", <<>>, r, VariableDeleteOut(state[1], r))

\* A handler given an import ID or a data source configuration ran.
RanWith(name, a, r, out) ==
    /\ op' = name
    /\ before' = state
    /\ plan' = <<>>
    /\ arg' = <<a>>
    /\ requests' = out.requests
    /\ response' = r
    /\ diags' = out.diags
    /\ state' = out.state
    /\ UNCHANGED <<kind, config, handle, instances>>

WorkspaceImport ==
    /\ kind = "workspace" /\ state = <<>>
    /\ \E id \in ImportIDs("acme", "ws-a"), r \in WorkspaceListResponses :
          RanWith("Import", id, r, WorkspaceImportOut(id, r))

VCSImport ==
    /\ kind = "vcs" /\ state = <<>>
    /\ \E id \in ImportIDs("acme", "gh"), r \in VCSListResponses :
          RanWith("Import", id, r, VCSImportOut(id, r))

VariableImport ==
    /\ kind = "variable" /\ state = <<>>
    /\ \E id \in ImportIDs("acme", "region"),
          r \in ListResponses(VariableListObjects, WithKey(VariableObjectBase, "workspace", "")) :
          RanWith("Import", id, r, VariableImportOut(id, r))

\* A data source is read anew on every refresh; no prior state is given to
\* its Read.
OrganizationDataSourceRead ==
    /\ kind = "organization_data"
    /\ \E sc \in Scenarios(OrganizationFilters,
                           [id |-> StringNull, name |-> StringValue("org-a")],
                           OrganizationResponses
                               \cup ListResponses(OrganizationListObjects,
                                                  OrganizationObjectBase),
                           [fail |-> "none", status |-> 200,
                            body |-> JsonArray(<<OrganizationObjectBase>>)]) :
          RanWith("DataRead", sc[1], sc[2], OrganizationDataSourceReadOut(sc[1], sc[2]))

WorkspaceDataSourceRead ==
    /\ kind = "workspace_data"
    /\ \E sc \in Scenarios(ScopedFilters("acme", "ws-a"),
                           [id |-> StringNull, organization_name |-> StringValue("acme"),
                            name |-> StringValue("ws-a")],
                           WorkspaceResponses \cup WorkspaceListResponses,
                           [fail |-> "none", status |-> 200,
                            body |-> JsonArray(<<WorkspaceObjectBase>>)]) :
          RanWith("DataRead", sc[1], sc[2], WorkspaceDataSourceReadOut(sc[1], sc[2]))

VCSDataSourceRead ==
    /\ kind = "vcs_data"
    /\ \E sc \in Scenarios(ScopedFilters("acme", "gh"),
                           [id |-> StringNull, organization_name |-> StringValue("acme"),
                            name |-> StringValue("gh")],
                           VCSResponses \cup VCSListResponses,
                           [fail |-> "none", status |-> 200,
                            body |-> JsonArray(<<VCSObjectBase>>)]) :
          RanWith("DataRead", sc[1], sc[2], VCSDataSourceReadOut(sc[1], sc[2]))

\* Configure of the provider: it runs once, before any handler of a resource,
\* and fills in the handle that every resource's Configure then stores a
\* pointer to.
ProviderConfigure ==
    /\ kind = "provider" /\ config = <<>>
    /\ \E hostname \in {StringNull, StringValue("dots.example.com")},
          token \in {StringValue("token-1")} :
          /\ config' = <<[hostname |-> hostname, token |-> token]>>
          /\ handle' = [client |-> TRUE,
                        host |-> IF IsNull(hostname) THEN "api.infradots.com"
                                 ELSE ValueString(hostname),
                        token |-> ValueString(token)]
    /\ UNCHANGED <<kind, state, op, before, plan, arg, requests, response,
                   diags, instances>>

\* What the handler `name` of resource k leaves when it starts from state s
\* and receives response r.  Create is given the base plan.
OperationOut(k, name, s, r) ==
    IF k = "organization"
    THEN CASE name = "Create" ->
                 OrganizationCreateOut(OrganizationPlan(OrganizationPlanBase, StringUnknown), r)
           [] name = "Read" -> OrganizationReadOut(s[1], r)
           [] OTHER -> OrganizationDeleteOut(s[1], r)
    ELSE CASE name = "Create" -> VCSCreateOut(VCSPlan(VCSPlanBase, StringUnknown), r)
           [] name = "Read" -> VCSReadOut(s[1], r)
           [] OTHER -> VCSDeleteOut(s[1], r)

\* The responses the remote API gives to a handler of resource k that runs
\* beside another.
OperationResponses(k) ==
    LET base == IF k = "organization" THEN OrganizationObjectBase ELSE VCSObjectBase
    IN  {Ok(201, base), Ok(200, WithKey(base, "name", "renamed")),
         Ok(204, base), Ok(404, base),
         [fail |-> "do", status |-> 0, body |-> InvalidBody]}

\* The first half of a handler of instance i: it reads the state (or plan) it
\* was given, reads host and token through its provider pointer to build
\* the request, and hands the request to the shared client.
OperationBegin(i) ==
    /\ kind = "provider" /\ config # <<>>
    /\ instances[i].pc = "idle"
    /\ \E name \in IF instances[i].state = <<>> THEN {"Create"} ELSE {"Read", "Delete"} :
          instances' =
              [j \in Instances |->
                  IF j = i
                  THEN [instances[i] EXCEPT
                           !.pc = "sent", !.op = name,
                           !.before = instances[i].state,
                           !.used = <<[host |-> handle.host, token |-> handle.token]>>,
                           !.overlapped = \E o \in Instances \ {i} : instances[o].pc = "sent",
                           !.requests = <<>>, !.response = NoResponse,
                           !.diags = <<>>]
                  ELSE [instances[j] EXCEPT
                           !.overlapped = @ \/ instances[j].pc = "sent"]]
    /\ UNCHANGED <<kind, state, op, before, plan, arg, requests, response,
                   diags, config, handle>>

\* A handler that rebinds the host of the shared handle when it finishes.
OperationEndRebinding(i) ==
    /\ kind = "provider" /\ instances[i].pc = "sent"
    /\ \E r \in OperationResponses(InstanceKind(i)) :
          LET out == OperationOut(InstanceKind(i), instances[i].op, instances[i].before, r)
          IN  instances' = [instances EXCEPT
                               ![i].pc = "idle", ![i].state = out.state,
                               ![i].requests = out.requests, ![i].response = r,
                               ![i].diags = out.diags]
    /\ handle' = [handle EXCEPT !.host = "localhost"]
    /\ UNCHANGED <<kind, state, op, before, plan, arg, requests, response,
                   diags, config>>

\* The second half of a handler of instance i: the response arrives, the
\* handler raises its diagnostics and sets its own state.  The handle is
\* only read.
OperationEnd(i) ==
    /\ kind = "provider" /\ instances[i].pc = "sent"
    /\ \E r \in OperationResponses(InstanceKind(i)) :
          LET out == OperationOut(InstanceKind(i), instances[i].op, instances[i].before, r)
          IN  instances' = [instances EXCEPT
                               ![i].pc = "idle", ![i].state = out.state,
                               ![i].requests = out.requests, ![i].response = r,
                               ![i].diags = out.diags]
    /\ UNCHANGED <<kind, state, op, before, plan, arg, requests, response,
                   diags, config, handle>>

Next ==
    \/ OrganizationCreate
    \/ OrganizationRead
    \/ OrganizationUpdate
    \/ OrganizationDelete
    \/ WorkspaceCreate
    \/ WorkspaceRead
    \/ WorkspaceUpdate
    \/ WorkspaceDelete
    \/ VariableCreate
    \/ VariableRead
    \/ VariableUpdate
    \/ VariableDelete
    \/ WorkspaceImport
    \/ VCSImport
    \/ VariableImport
    \/ OrganizationDataSourceRead
    \/ WorkspaceDataSourceRead
    \/ VCSDataSourceRead
    \/ VCSCreate
    \/ VCSRead
    \/ VCSUpdate
    \/ VCSDelete
    \/ ProviderConfigure
    \/ \E i \in Instances : OperationBegin(i)
    \/ \E i \in Instances : OperationEnd(i)

Spec == Init /\ [][Next]_vars


----------------------------------------------------------------------------
(* Properties.                                                             *)

\* The handler that ran last received a response (no transport failure).
Answered == response.fail = "none"
Succeeded == diags = <<>>

\* The body of the PATCH request the last Update sent.
Payload == requests[1].body

\* Attribute of the model and JSON key of the update request, for every
\* field the adapter's update request can carry.
PayloadFields ==
    CASE kind = "organization" ->
            {<<"name", "name">>, <<"execution_mode", "execution_mode">>,
             <<"agents_enabled", "agents_enabled">>}
      [] kind = "workspace" ->
            {<<"name", "name">>, <<"description", "description">>,
             <<"source", "source">>, <<"branch", "branch">>,
             <<"terraform_version", "terraform_version">>}
      [] kind = "variable" ->
            {<<"key", "key">>, <<"value", "value">>,
             <<"description", "description">>, <<"category", "category">>,
             <<"sensitive", "sensitive">>, <<"hcl", "hcl">>}
      [] kind = "vcs" ->
            {<<"name", "name">>, <<"vcs_type", "vcsType">>, <<"url", "endpoint">>,
             <<"client_id", "clientId">>, <<"client_secret", "clientSecret">>,
             <<"description", "description">>}

\* Attribute and JSON key of the timestamps every response returns.
TimestampFields == {<<"created_at", "created_at">>, <<"updated_at", "updated_at">>}

\* Attribute and JSON key of the other fields a response returns; no
\* response returns the VCS client secret.
ReturnedFields ==
    {<<"id", "id">>} \cup {f \in PayloadFields : f[1] # "client_secret"}

BoolFields ==
    CASE kind = "organization" -> {"agents_enabled"}
      [] kind = "variable" -> {"sensitive", "hcl"}
      [] OTHER -> {}

SecretFields ==
    CASE kind = "vcs" -> {"client_secret"}
      [] kind = "variable" -> {"value"}
      [] OTHER -> {}

NonSecret(rec) == [f \in DOMAIN rec \ SecretFields |-> rec[f]]

\* C1: in every adapter, a Read whose GET is answered with 404 removes the
\* record from local state and raises no error diagnostic.
C1_ReadNotFoundRemovesRecord ==
    (op = "Read" /\ response.fail # "do" /\ response.status = 404)
        => (state = <<>> /\ diags = <<>>)

C1_Witness ==
    /\ op = "Read" /\ response.status = 404
    /\ before # <<>> /\ state = <<>> /\ diags = <<>>
    /\ kind = "workspace"

\* C2: in every adapter, a Delete answered with 204, 200 or 404 raises no
\* error and removes the record from local state.
C2_DeleteAcceptsGoneStatuses ==
    (op = "Delete" /\ Answered /\ response.status \in {204, 200, 404})
        => (diags = <<>> /\ state = <<>>)

\* C3: in every adapter, a Delete that is answered with a status other than
\* 204, 200 and 404, or that fails in transport, raises an error and leaves
\* the record in local state with every field unchanged.
C3_DeleteFailureKeepsRecord ==
    (op = "Delete" /\ (~Answered \/ response.status \notin {204, 200, 404}))
        => (diags # <<>> /\ state # <<>> /\ state = before)

C3_Witness ==
    /\ op = "Delete" /\ Answered /\ response.status = 500
    /\ diags # <<>> /\ state # <<>> /\ state = before
    /\ kind = "vcs"

\* C4: Create succeeds only when answered with 201; answered with any other
\* status it raises one error that carries the status code and the raw
\* response body, and writes no record to local state.
C4_CreateNeedsCreatedStatus ==
    /\ (op = "Create" /\ Succeeded) => (Answered /\ response.status = 201)
    /\ (op = "Create" /\ Answered /\ response.status # 201)
          => /\ state = <<>>
             /\ Len(diags) = 1
             /\ diags[1].detail = [status |-> response.status, body |-> response.body]

C4_Witness ==
    /\ op = "Create" /\ Answered /\ response.status = 200
    /\ response.body = JsonObject(VariableObjectBase)
    /\ kind = "variable"
    /\ state = <<>> /\ diags # <<>>

\* C5: after a successful Create, every field of local state that the 201
\* response returns holds the value of the response body: id, name or key
\* and the mutable attributes hold the returned text or boolean itself, the
\* timestamps hold the returned instant (compared to the whole second).
C5_CreateStoresResponse ==
    (op = "Create" /\ Succeeded)
        => LET o == response.body.obj
           IN  /\ \A f \in ReturnedFields :
                    f[2] \in DOMAIN o
                        => /\ state[1][f[1]].st = "known"
                           /\ state[1][f[1]].v = o[f[2]]
               /\ \A f \in TimestampFields :
                    f[2] \in DOMAIN o
                        => /\ state[1][f[1]].st = "known"
                           /\ ParseTime(state[1][f[1]].v).sec = ParseTime(o[f[2]]).sec

\* C6: in every adapter, a successful Create followed by a successful Read
\* answered with the same record leaves every non-secret field of local
\* state as it was right after Create.
C6_ReadAfterCreateIsStable ==
    [][(/\ op = "Create" /\ Succeeded /\ state # <<>>
        /\ op' = "Read" /\ diags' = <<>> /\ state' # <<>>
        /\ response'.body = response.body)
          => NonSecret(state'[1]) = NonSecret(state[1])]_vars

\* C7: in every adapter's Update, a field whose planned value equals its
\* value in current state is absent from the PATCH payload, and when exactly
\* one field differs the payload holds that field and nothing else.
C7_UpdatePayloadIsTheDiff ==
    op = "Update"
        => LET changed == {f \in PayloadFields : plan[1][f[1]] # before[1][f[1]]}
           IN  /\ \A f \in PayloadFields \ changed : f[2] \notin DOMAIN Payload
               /\ Cardinality(changed) = 1 => DOMAIN Payload = {f[2] : f \in changed}

\* C8: in every adapter's Update, every field whose planned value differs
\* from its value in current state is in the PATCH payload with the planned
\* value, also when the planned value is the empty text or null.
C8_UpdatePayloadCarriesEveryChange ==
    op = "Update"
        => \A f \in PayloadFields :
              plan[1][f[1]] # before[1][f[1]]
                  => /\ f[2] \in DOMAIN Payload
                     /\ plan[1][f[1]].st = "known" => Payload[f[2]] = plan[1][f[1]].v

\* C9: in Update, a boolean that the plan changes from true to false
\* (organization agents_enabled, variable sensitive and hcl) is in the PATCH
\* payload as an explicit false.
C9_UpdateSendsExplicitFalse ==
    op = "Update"
        => \A b \in BoolFields :
              (before[1][b] = BoolValue(TRUE) /\ plan[1][b] = BoolValue(FALSE))
                  => (b \in DOMAIN Payload /\ Payload[b] = FALSE)

\* C10: the VCS client_secret in local state equals the planned value after
\* a successful Create or Update and is left unchanged by every successful
\* Read, whatever the responses hold; none of the three replaces a secret
\* that is set by an empty or null one.
C10_ClientSecretRetained ==
    (kind = "vcs" /\ op \in {"Create", "Read", "Update"} /\ state # <<>>)
        => /\ (op \in {"Create", "Update"} /\ Succeeded)
                 => /\ state[1].client_secret = plan[1].client_secret
                    /\ state[1].client_secret.st = "known"
                    /\ state[1].client_secret.v # ""
           /\ (op = "Read" /\ Succeeded)
                 => state[1].client_secret = before[1].client_secret
           /\ (op \in {"Read", "Update"} /\ ValueString(before[1].client_secret) # "")
                 => ValueString(state[1].client_secret) # ""

C10_Witness ==
    /\ kind = "vcs" /\ op = "Read" /\ Succeeded /\ state # <<>>
    /\ "clientSecret" \in DOMAIN response.body.obj
    /\ state[1].client_secret = StringValue("secret-2")

\* C11: in the variable adapter, a successful Create, Read or Update whose
\* response omits the value of a sensitive variable, or returns it empty,
\* leaves value in local state equal to the last-written value: the planned
\* value for Create and Update, the prior state's value for Read.
C11_SensitiveValueRetained ==
    (/\ kind = "variable" /\ op \in {"Create", "Read", "Update"}
     /\ Succeeded /\ state # <<>>
     /\ state[1].sensitive = BoolValue(TRUE)
     /\ Field(response.body.obj, "value", "") = "")
        => state[1].value = (IF op = "Read" THEN before[1].value ELSE plan[1].value)

\* C12: a successful Read or Update leaves the id of the record in local
\* state as it was, whatever id the response carries.
C12_IdNeverChanges ==
    (op \in {"Read", "Update"} /\ Succeeded /\ state # <<>>)
        => state[1].id = before[1].id

\* C13: Read, Update and Delete of every adapter address the remote record
\* by the id held in local state, under the organization held in local
\* state for the adapters scoped by an organization.
C13_AddressedById ==
    op \in {"Read", "Update", "Delete"}
        => LET url == requests[1].url
           IN  /\ url[Len(url)] = before[1].id.v
               /\ kind # "organization" => url[4] = before[1].organization_name.v

\* The import ID the last Import was given: the number of its segments, and
\* the organization and the name a two-segment ID gives.
ImportSegments == Cardinality({i \in DOMAIN arg[1] : arg[1][i] = ":"}) + 1
ImportOrganization == IF arg[1][1] = ":" THEN "" ELSE arg[1][1]
ImportName == IF arg[1][Len(arg[1])] = ":" THEN "" ELSE arg[1][Len(arg[1])]

\* The last Import was given a two-segment ID and its list call was answered
\* 200 with a list.
ImportListed ==
    /\ op = "Import" /\ ImportSegments = 2
    /\ Answered /\ response.status = 200 /\ IsArray(response.body)

\* The records of the answered list that carry the requested name (key, for
\* variables).
ImportMatches ==
    {i \in DOMAIN response.body.obj :
        Field(response.body.obj[i], IF kind = "variable" THEN "key" ELSE "name", "")
            = ImportName}

ImportListParses ==
    CASE kind = "workspace" -> WorkspaceListUnmarshalOk(response.body)
      [] kind = "vcs" -> VCSListUnmarshalOk(response.body)
      [] kind = "variable" -> VariableListUnmarshalOk(response.body)

\* C14: workspace and VCS Import given an ID that does not have exactly two
\* colon-separated segments raise 'Invalid import ID format', issue no
\* request and set no local state.
C14_ImportRejectsMalformedId ==
    (kind \in {"workspace", "vcs"} /\ op = "Import" /\ ImportSegments # 2)
        => /\ requests = <<>>
           /\ state = <<>>
           /\ Len(diags) = 1
           /\ diags[1].summary = "Invalid import ID format"

C14_Witness ==
    /\ kind = "vcs" /\ op = "Import"
    /\ arg = <<(<<"acme", ":", "ws-a", ":", "gh", ":", "extra">>)>>
    /\ response = [fail |-> "none", status |-> 200, body |-> JsonArray(<<VCSObjectBase>>)]
    /\ requests = <<>> /\ state = <<>> /\ diags # <<>>

\* The filter that names, for a data source, what the last Import's ID
\* named.
ImportAsFilter ==
    [id |-> StringNull,
     organization_name |-> StringValue(ImportOrganization),
     name |-> StringValue(ImportName)]

\* What the data source of the same kind leaves behind when it resolves that
\* filter against the response the last Import was given.
ImportAsDataSource ==
    IF kind = "workspace"
    THEN WorkspaceDataSourceReadOut(ImportAsFilter, response)
    ELSE VCSDataSourceReadOut(ImportAsFilter, response)

C17_ImportNeedsOneMatch ==
    (kind \in {"workspace", "vcs"} /\ ImportListed /\ Cardinality(ImportMatches) >= 2)
        => state = <<>>

\* The segments between the first and the last of the last Import's ID.
ImportMiddle == SubSeq(Split(arg[1]), 2, ImportSegments - 1)

\* The last Import was a variable Import of a two- or three-segment ID whose
\* list call was answered 200 with a list that parses.
VariableImportListed ==
    /\ kind = "variable" /\ op = "Import" /\ ImportSegments \in {2, 3}
    /\ Answered /\ response.status = 200 /\ ImportListParses

DataKinds == {"organization_data", "workspace_data", "vcs_data"}
ScopedDataKinds == {"workspace_data", "vcs_data"}

\* The last data source Read was given a filter that names no record: no id
\* and not the whole natural key, or, for a workspace or a VCS connection,
\* an id without the organization.
FilterNamesNothing ==
    IF kind = "organization_data"
    THEN arg[1].id = StringNull /\ arg[1].name = StringNull
    ELSE \/ /\ arg[1].id = StringNull
            /\ (arg[1].organization_name = StringNull \/ arg[1].name = StringNull)
         \/ /\ arg[1].id # StringNull
            /\ arg[1].organization_name = StringNull

\* C19: a data source Read given neither an id nor the complete natural key
\* (name for an organization; organization_name and name for a workspace or
\* a VCS connection), and a workspace or VCS data source Read given an id
\* without organization_name, raise 'Missing required parameter', issue no
\* request and set no state.
C19_MissingParameterBeforeAnyCall ==
    (kind \in DataKinds /\ op = "DataRead" /\ FilterNamesNothing)
        => /\ requests = <<>>
           /\ state = <<>>
           /\ Len(diags) = 1
           /\ diags[1].summary = "Missing required parameter"

\* A workspace data source Read given an id and a name but no organization
\* was refused.
C19_Witness ==
    /\ kind = "workspace_data" /\ op = "DataRead"
    /\ arg[1].id # StringNull /\ arg[1].name # StringNull
    /\ arg[1].organization_name = StringNull
    /\ requests = <<>> /\ state = <<>>
    /\ diags # <<>> /\ diags[1].summary = "Missing required parameter"

\* The last data source Read resolved a name: the filter has no id and holds
\* the whole natural key.
ByName == kind \in DataKinds /\ op = "DataRead" /\ arg[1].id = StringNull /\ ~FilterNamesNothing

\* The collection a by-name Read lists.
ByNameCollection ==
    CASE kind = "organization_data" -> <<"https", "api", "organizations">>
      [] kind = "workspace_data" ->
            <<"https", "api", "organizations", ValueString(arg[1].organization_name),
              "workspaces">>
      [] kind = "vcs_data" ->
            <<"https", "api", "organizations", ValueString(arg[1].organization_name), "vcs">>

ByNameListParses ==
    CASE kind = "organization_data" -> OrganizationListUnmarshalOk(response.body)
      [] kind = "workspace_data" -> WorkspaceListUnmarshalOk(response.body)
      [] kind = "vcs_data" -> VCSListUnmarshalOk(response.body)

\* The positions of the answered list whose record carries exactly the
\* requested name.
ByNameMatches ==
    {i \in DOMAIN response.body.obj :
        Field(response.body.obj[i], "name", "") = ValueString(arg[1].name)}

ByNameNotFound ==
    CASE kind = "organization_data" -> "Organization not found"
      [] kind = "workspace_data" -> "Workspace not found"
      [] kind = "vcs_data" -> "VCS connection not found"

\* C20: a data source Read by name issues exactly one request, a GET of the
\* collection in scope; answered 200 with a list, it returns the first
\* record in list order whose name equals the requested name exactly, and
\* when no record does it raises the kind's 'not found' error and sets no
\* state.
C20_ByNameReturnsFirstExactMatch ==
    ByName
        => /\ Len(requests) = 1
           /\ requests[1].method = "GET"
           /\ requests[1].url = ByNameCollection
           /\ (Answered /\ response.status = 200 /\ ByNameListParses)
                => IF ByNameMatches = {}
                   THEN /\ state = <<>>
                        /\ Len(diags) = 1
                        /\ diags[1].summary = ByNameNotFound
                   ELSE LET first == CHOOSE i \in ByNameMatches :
                                        \A j \in ByNameMatches : i <= j
                        IN  /\ Succeeded
                            /\ state # <<>>
                            /\ state[1].id = StringValue(Field(response.body.obj[first], "id", ""))
                            /\ state[1].name = arg[1].name
                            /\ \A f \in {"description", "execution_mode"}
                                       \cap DOMAIN state[1] :
                                    state[1][f]
                                        = StringValue(Field(response.body.obj[first], f, ""))

\* A Read by name skipped a record whose name differs only in case and
\* returned the record after it.
C20_Witness ==
    /\ ByName /\ kind = "workspace_data" /\ Succeeded /\ state # <<>>
    /\ Len(response.body.obj) = 2
    /\ ByNameMatches = {2}
    /\ response.body.obj[1].name = "WS-A" /\ arg[1].name = StringValue("ws-a")
    /\ state[1].id = StringValue(Field(response.body.obj[2], "id", ""))

\* A Read by name returned the first of two records of the requested name.
C20_WitnessDuplicates ==
    /\ ByName /\ Succeeded /\ state # <<>>
    /\ Cardinality(ByNameMatches) = 2
    /\ response.body.obj[1].id # response.body.obj[2].id
    /\ state[1].id = StringValue(response.body.obj[1].id)

\* The last operation was refused on its input: an import ID with the wrong
\* number of segments, or a data source filter that names nothing.
ValidationFailed ==
    \/ /\ op = "Import"
       /\ IF kind = "variable" THEN ImportSegments \notin {2, 3} ELSE ImportSegments # 2
    \/ /\ op = "DataRead"
       /\ FilterNamesNothing

\* C21: every operation issues no request when its input validation fails
\* and exactly one otherwise, whatever the transport or the server answers:
\* no request is issued a second time.
C21_AtMostOneRequest ==
    op # "none" => Len(requests) = IF ValidationFailed THEN 0 ELSE 1

\* An Update whose request failed in transport ended with an error after
\* that one request.
C21_Witness ==
    /\ op = "Update" /\ response.fail = "do"
    /\ diags # <<>> /\ Len(requests) = 1

\* C22: a Create, Read, Update, Delete or Import that ends with an error
\* diagnostic leaves local state exactly as it was before the operation.
\* (A Read answered 404 removes the record and raises no diagnostic.)
C22_ErrorLeavesStateUntouched ==
    (op \in {"Create", "Read", "Update", "Delete", "Import"} /\ diags # <<>>)
        => state = before

\* An Update of a changed plan was answered 200 with a body that does not
\* parse, and the record is as it was.
C22_Witness ==
    /\ op = "Update" /\ diags # <<>>
    /\ Answered /\ response.status = 200
    /\ before # <<>> /\ state = before
    /\ \E f \in DOMAIN plan[1] \cap {"name", "key"} : plan[1][f] # before[1][f]

\* The last request addresses the record local state held before the
\* operation: under the organization of that state (for the adapters scoped
\* by one), by the id of that state or, for a workspace, its name.
AddressesExistingRecord ==
    LET url == requests[1].url
    IN  /\ url[Len(url)] \in {before[1].id.v}
                                \cup (IF kind = "workspace" THEN {before[1].name.v} ELSE {})
        /\ kind # "organization" => url[4] = before[1].organization_name.v

\* C23: a record leaves local state only through a successful Delete or a
\* Read answered 404; an Update issues a single PATCH to the record local
\* state holds, never a POST or a DELETE, and keeps a record in local state.
C23_UpdateMutatesInPlace ==
    kind \notin DataKinds
        => /\ (before # <<>> /\ state = <<>>)
                => \/ op = "Delete" /\ Succeeded
                   \/ op = "Read" /\ response.fail # "do" /\ response.status = 404
           /\ op = "Update"
                => /\ Len(requests) = 1
                   /\ requests[1].method = "PATCH"
                   /\ state # <<>>
                   /\ AddressesExistingRecord

\* The last operation was one of the workspace operations that store a
\* returned record.
WorkspaceStored ==
    \/ kind = "workspace" /\ op \in {"Create", "Read", "Update", "Import"}
    \/ kind = "workspace_data" /\ op = "DataRead"

\* That operation was answered a list: an Import, or a data source Read by
\* name.
WorkspaceFromList == op = "Import" \/ (op = "DataRead" /\ arg[1].id = StringNull)

\* The record of the response that operation stored: the body of a
\* single-record answer, the first match of a list.
WorkspaceReturned ==
    IF WorkspaceFromList
    THEN LET name == IF op = "Import" THEN ImportName ELSE ValueString(arg[1].name)
             hits == {i \in DOMAIN response.body.obj :
                        Field(response.body.obj[i], "name", "") = name}
         IN  response.body.obj[CHOOSE i \in hits : \A j \in hits : i <= j]
    ELSE response.body.obj

\* The answer is one the operation accepts, apart from what its vcs may
\* hold: the expected status, a body of the expected shape, well-formed
\* timestamps and, for a list, a record of the requested name.
WorkspaceAnswerAccepted ==
    /\ Answered
    /\ response.status = IF op = "Create" THEN 201 ELSE 200
    /\ IF WorkspaceFromList
       THEN /\ IsArray(response.body)
            /\ IF op = "Import"
               THEN ImportSegments = 2 /\ ImportListParses /\ ImportMatches # {}
               ELSE ~FilterNamesNothing /\ ByNameListParses /\ ByNameMatches # {}
       ELSE /\ IsObject(response.body)
            /\ op = "DataRead" => ~FilterNamesNothing
            /\ TimeFieldOk(response.body.obj, "created_at")
            /\ TimeFieldOk(response.body.obj, "updated_at")

\* The seven attributes of a vcs sub-record, the timestamps as the instant
\* they name.
VcsAttributes(o) ==
    [id |-> StringValue(Field(o, "id", "")),
     name |-> StringValue(Field(o, "name", "")),
     vcs_type |-> StringValue(Field(o, "vcsType", "")),
     url |-> StringValue(Field(o, "endpoint", "")),
     description |-> StringValue(Field(o, "description", "")),
     created_at |-> StringValue(FormatRFC3339(TimeField(o, "created_at"))),
     updated_at |-> StringValue(FormatRFC3339(TimeField(o, "updated_at")))]

\* C24: for workspace Create, Read, Update, Import and the workspace data
\* source Read, an accepted answer whose record has no vcs sub-record (the
\* key absent or null) raises no error and stores a null vcs object, and a
\* stored record with a vcs sub-record has a vcs object of exactly the
\* attributes id, name, vcs_type, url, description, created_at and
\* updated_at, each with the value the sub-record carries.
C24_VcsSubRecordMapping ==
    WorkspaceStored
        => /\ (WorkspaceAnswerAccepted /\ Field(WorkspaceReturned, "vcs", <<>>) = <<>>)
                => /\ Succeeded
                   /\ state # <<>>
                   /\ state[1].vcs = ObjectNull
           /\ (Succeeded /\ state # <<>> /\ Field(WorkspaceReturned, "vcs", <<>>) # <<>>)
                => state[1].vcs = ObjectValue(VcsAttributes(WorkspaceReturned.vcs[1]))

\* An Update was answered a record without the vcs key and stored a null vcs
\* object where the state held one.
C24_Witness ==
    /\ kind = "workspace" /\ op = "Update" /\ Succeeded
    /\ "vcs" \notin DOMAIN response.body.obj
    /\ before[1].vcs.st = "known" /\ state[1].vcs = ObjectNull

\* A data source Read stored the vcs sub-record of the answer.
C24_WitnessDataSource ==
    /\ kind = "workspace_data" /\ op = "DataRead" /\ Succeeded
    /\ state[1].vcs.st = "known"

\* C25: a workspace Create whose plan sets vcs_id sends it in the creation
\* payload, and a workspace Update whose plan sets a vcs_id other than the
\* one in state sends it in the PATCH payload.
C25_VcsIdIsSent ==
    (kind = "workspace" /\ op \in {"Create", "Update"} /\ plan[1].vcs_id.st = "known")
        => /\ op = "Create"
                => /\ "vcs_id" \in DOMAIN requests[1].body
                   /\ requests[1].body["vcs_id"] = plan[1].vcs_id.v
           /\ (op = "Update" /\ plan[1].vcs_id # before[1].vcs_id)
                => /\ "vcs_id" \in DOMAIN requests[1].body
                   /\ requests[1].body["vcs_id"] = plan[1].vcs_id.v

C29_NullDescriptionStaysNull ==
    (/\ kind = "workspace" /\ op \in {"Create", "Update"} /\ Succeeded
     /\ plan[1].description = StringNull)
        => state[1].description = StringNull

\* C30: the Update of a workspace, a VCS connection or a variable sends its
\* PATCH under the organization recorded in the state it was given (the
\* scope the next Read or Delete of that state would use), whatever
\* organization_name the plan holds.
C30_UpdateStaysInStateOrganization ==
    (kind \in {"workspace", "vcs", "variable"} /\ op = "Update")
        => requests[1].url[4] = before[1].organization_name.v

====
